---- MODULE Spec2Model ----
(***************************************************************************)
(* Model of the GSAP animation preset system of nomira-digital/website.    *)
(*                                                                         *)
(* Two builds of the page script exist in the repository:                  *)
(*   "responsive"  src/unnamed/part_000 (presets with breakpoints and      *)
(*                 exclusion, responsive value cache, resize listeners)    *)
(*   "legacy"      src/script.js (presets without breakpoints)             *)
(*                                                                         *)
(* JavaScript strings that the code inspects character by character        *)
(* (attribute values, preset keys) are sequences of tokens.  A token is    *)
(* either one significant character (a digit, an upper-case letter, one of *)
(* . - + % , and the blank) or a run of lower-case letters; the string is  *)
(* the concatenation of its tokens (Join).  Strings that the code only     *)
(* compares or concatenates (attribute names, cache keys, breakpoint       *)
(* names) are TLA+ strings.                                                *)
(***************************************************************************)
EXTENDS Integers, Sequences, FiniteSets, TLC

VARIABLES
  build,                 \* which script the page loads
  presets,               \* the preset document source and content
  dom,                   \* per element: attributes, word count, icon
  pc,                    \* position of the script's top-level execution
  width,                 \* window.innerWidth
  currentBreakpoint,     \* part_000:221, "null" until first computed
  responsiveValueCache,  \* part_000:222, element -> (key -> value)
  resizeTimeout,         \* part_000:384, TRUE while the debounce timer is pending
  orientTimers,          \* number of pending orientationchange timers
  calls,                 \* Animator / Tokenizer requests issued so far
  split,                 \* elements whose text holds .split-word spans
  log,                   \* console diagnostics of the expansion stage
  last,                  \* what the last step did (its observable outcome)
  now,                   \* milliseconds since the page was loaded
  timers,                \* the pending timers of the resize listener: [id, due]
  timerId,               \* part_000:384, the id held by resizeTimeout, 0 if none
  burst,                 \* the resize events since the last quiet period
  cursorPage,            \* which elements of the custom cursor the page has
  cursorPc,              \* the cursor set-up: "setup", then "on" or "off"
  pointer,               \* the hover target under the mouse pointer, or "none"
  cursor,                \* part_000:904-918, the variables of the cursor closure
  cursorView,            \* per cursor element: class 'active', shown or hidden
  cursorTimers,          \* the pending timers of the cursor handlers
  cursorErrors           \* whether a cursor handler ended with a TypeError

timeVars == <<now, timers, timerId, burst>>

cursorVars == <<cursorPage, cursorPc, pointer, cursor, cursorView, cursorTimers,
                cursorErrors>>

vars == <<build, presets, dom, pc, width, currentBreakpoint,
          responsiveValueCache, resizeTimeout, orientTimers, calls, split,
          log, last, timeVars, cursorVars>>

----------------------------------------------------------------------------
(* Bounds of the model *)

\* orientationchange timers are not debounced: any number may be pending
MaxOrientTimers == 1

\* the time, in milliseconds, over which resize events are followed
MaxTime == 700

\* resize timers that may be pending at once before further events are left out
MaxPending == 2

\* pending fade-in timers per cursor element before further events are left out
MaxShowTimers == 2

\* pending dropdown leave timers before further events are left out
MaxLeaveTimers == 2

\* the widest viewport of the page loads over every width
MaxWidth == 1100

----------------------------------------------------------------------------
(* JavaScript values: numbers are m * 10^(-e), strings are token sequences *)

Num(m, e) == [t |-> "num", m |-> m, e |-> e, s |-> <<>>]
Str(s) == [t |-> "str", m |-> 0, e |-> 0, s |-> s]
Bool(b) == [t |-> "bool", m |-> IF b THEN 1 ELSE 0, e |-> 0, s |-> <<>>]
NaN == [t |-> "nan", m |-> 0, e |-> 0, s |-> <<>>]
Null == [t |-> "null", m |-> 0, e |-> 0, s |-> <<>>]

Digits == <<"0", "1", "2", "3", "4", "5", "6", "7", "8", "9">>
IsDigit(c) == \E i \in 1..Len(Digits) : Digits[i] = c
DigitVal(c) == (CHOOSE i \in 1..Len(Digits) : Digits[i] = c) - 1

RECURSIVE Join(_)
Join(s) == IF s = <<>> THEN "" ELSE Head(s) \o Join(Tail(s))

RECURSIVE SkipWs(_)
SkipWs(s) == IF s # <<>> /\ Head(s) = " " THEN SkipWs(Tail(s)) ELSE s

RECURSIVE TakeDigits(_)
TakeDigits(s) ==
  IF s # <<>> /\ IsDigit(Head(s)) THEN <<Head(s)>> \o TakeDigits(Tail(s)) ELSE <<>>

RECURSIVE DigitsVal(_)
DigitsVal(s) ==
  IF s = <<>> THEN 0 ELSE 10 * DigitsVal(SubSeq(s, 1, Len(s) - 1)) + DigitVal(s[Len(s)])

RECURSIVE Normalize(_, _)
Normalize(m, e) ==
  IF e > 0 /\ m % 10 = 0 THEN Normalize(m \div 10, e - 1) ELSE Num(m, e)

\* a parser of integers: the fraction is dropped
parseInteger(s) ==
  LET a == SkipWs(s)
      neg == a # <<>> /\ Head(a) = "-"
      b == IF a # <<>> /\ Head(a) \in {"-", "+"} THEN Tail(a) ELSE a
      ip == TakeDigits(b)
  IN IF ip = <<>> THEN NaN
     ELSE Num(IF neg THEN 0 - DigitsVal(ip) ELSE DigitsVal(ip), 0)

\* parseFloat: leading blanks, an optional sign, digits, an optional fraction;
\* whatever follows the longest numeric prefix is ignored; NaN without digits
parseFloat(s) ==
  LET a == SkipWs(s)
      neg == a # <<>> /\ Head(a) = "-"
      b == IF a # <<>> /\ Head(a) \in {"-", "+"} THEN Tail(a) ELSE a
      ip == TakeDigits(b)
      rest == SubSeq(b, Len(ip) + 1, Len(b))
      fp == IF rest # <<>> /\ Head(rest) = "." THEN TakeDigits(Tail(rest)) ELSE <<>>
      mag == DigitsVal(ip \o fp)
  IN IF ip = <<>> /\ fp = <<>> THEN NaN
     ELSE Normalize(IF neg THEN 0 - mag ELSE mag, Len(fp))

isNaN(v) == v.t = "nan"

NumberOr(parsed, s) == IF isNaN(parsed) THEN Str(s) ELSE parsed

\* isNaN(parseFloat(v)) ? v : parseFloat(v)
ParseAttr(s) == NumberOr(parseFloat(s), s)

----------------------------------------------------------------------------
(* DOM elements *)

Elements == 1..Len(dom)

----------------------------------------------------------------------------
(* Breakpoint Resolver *)

\* Object.entries(BREAKPOINTS), in insertion order
BREAKPOINTS ==
  << [name |-> "desktop",  min |-> 992, max |-> 0,   unbounded |-> TRUE,  order |-> 4],
     [name |-> "tablet",   min |-> 768, max |-> 991, unbounded |-> FALSE, order |-> 3],
     [name |-> "mobile-l", min |-> 480, max |-> 767, unbounded |-> FALSE, order |-> 2],
     [name |-> "mobile-p", min |-> 0,   max |-> 479, unbounded |-> FALSE, order |-> 1] >>

BreakpointNames == {BREAKPOINTS[i].name : i \in 1..Len(BREAKPOINTS)}
IsBreakpoint(name) == name \in BreakpointNames
Range(name) == BREAKPOINTS[CHOOSE i \in 1..Len(BREAKPOINTS) : BREAKPOINTS[i].name = name]
\* a range test that leaves out the upper end of the range
InRangeStrict(w, r) == w >= r.min /\ (r.unbounded \/ w < r.max)

InRange(w, r) == w >= r.min /\ (r.unbounded \/ w <= r.max)

\* the loop of getCurrentBreakpoint over the ranges, with its fallback
ClassifyWidth(w) ==
  IF \E i \in 1..Len(BREAKPOINTS) : InRange(w, BREAKPOINTS[i])
  THEN BREAKPOINTS[CHOOSE i \in 1..Len(BREAKPOINTS) :
                     /\ InRange(w, BREAKPOINTS[i])
                     /\ \A j \in 1..(i - 1) : ~InRange(w, BREAKPOINTS[j])].name
  ELSE "desktop"

\* getCurrentBreakpoint(): the memoized name when one is recorded, else the
\* classification of the width; the result is always left in currentBreakpoint
getCurrentBreakpoint(cb, w) == IF cb # "null" THEN cb ELSE ClassifyWidth(w)

----------------------------------------------------------------------------
(* Responsive Value Cache *)

EmptyMap == [k \in {} |-> Null]
Put(map, k, v) == [x \in (DOMAIN map) \cup {k} |-> IF x = k THEN v ELSE map[x]]
Has(map, k) == k \in DOMAIN map

\* The resolver functions read the viewport and read and write the two
\* module-level variables; rs carries them: [w, bp, cache]
ResolverState == [w |-> width, bp |-> currentBreakpoint, cache |-> responsiveValueCache]

\* the inner Map of the element, created empty on first use
cacheResponsiveValuesForElement(cache, e) ==
  IF Has(cache, e) THEN cache ELSE Put(cache, e, EmptyMap)

----------------------------------------------------------------------------
(* Exclusion Evaluator *)

RECURSIVE SplitComma(_)
\* String.prototype.split(','): the pieces between the commas
SplitComma(s) ==
  IF \A i \in 1..Len(s) : s[i] # ","
  THEN <<s>>
  ELSE LET k == CHOOSE i \in 1..Len(s) : s[i] = "," /\ \A j \in 1..(i - 1) : s[j] # ","
       IN <<SubSeq(s, 1, k - 1)>> \o SplitComma(SubSeq(s, k + 1, Len(s)))

RECURSIVE TrimEnd(_)
TrimEnd(s) ==
  IF s # <<>> /\ s[Len(s)] = " " THEN TrimEnd(SubSeq(s, 1, Len(s) - 1)) ELSE s

\* String.prototype.trim()
Trim(s) == TrimEnd(SkipWs(s))

\* the cascade with a strict comparison: the named breakpoint itself is missed
ExcludeListHitsStrict(attrs, breakpoint) ==
  /\ "data-gsap-exclude" \in DOMAIN attrs
  /\ attrs["data-gsap-exclude"] # <<>>
  /\ LET excludedBreakpoints == SplitComma(attrs["data-gsap-exclude"])
     IN \E i \in 1..Len(excludedBreakpoints) :
          LET excludedBreakpoint == Join(Trim(excludedBreakpoints[i]))
          IN /\ IsBreakpoint(excludedBreakpoint)
             /\ Range(excludedBreakpoint).order > Range(breakpoint).order

\* the comma list test of shouldExcludeAnimation (part_000:264-279)
ExcludeListHits(attrs, breakpoint) ==
  /\ "data-gsap-exclude" \in DOMAIN attrs
  /\ attrs["data-gsap-exclude"] # <<>>
  /\ LET excludedBreakpoints == SplitComma(attrs["data-gsap-exclude"])
     IN \E i \in 1..Len(excludedBreakpoints) :
          LET excludedBreakpoint == Join(Trim(excludedBreakpoints[i]))
          IN /\ IsBreakpoint(excludedBreakpoint)
             /\ Range(excludedBreakpoint).order >= Range(breakpoint).order

\* an evaluator without the legacy attribute test
LegacyExcludeIgnored(attrs, breakpoint) == FALSE

\* a legacy attribute that cascades to the narrower breakpoints like the list
LegacyExcludeCascading(attrs, breakpoint) ==
  \E b \in BreakpointNames :
    /\ ("data-gsap-exclude-" \o b) \in DOMAIN attrs
    /\ Range(b).order >= Range(breakpoint).order

\* the legacy attribute test of shouldExcludeAnimation (part_000:281-285)
LegacyExcludeHits(attrs, breakpoint) ==
  ("data-gsap-exclude-" \o breakpoint) \in DOMAIN attrs

\* the cached flag when there is one, else the flag computed and stored
ExcludeFlag(attrs, e, breakpoint, w, cache1, cacheKey) ==
  IF Has(cache1[e], cacheKey)
  THEN [ret |-> cache1[e][cacheKey],
        rs |-> [w |-> w, bp |-> breakpoint, cache |-> cache1]]
  ELSE IF ExcludeListHits(attrs, breakpoint) \/ LegacyExcludeHits(attrs, breakpoint)
  THEN [ret |-> Bool(TRUE),
        rs |-> [w |-> w, bp |-> breakpoint,
                cache |-> Put(cache1, e, Put(cache1[e], cacheKey, Bool(TRUE)))]]
  ELSE [ret |-> Bool(FALSE),
        rs |-> [w |-> w, bp |-> breakpoint,
                cache |-> Put(cache1, e, Put(cache1[e], cacheKey, Bool(FALSE)))]]

\* the key of the exclusion flag in the element's inner Map (part_000:258)
ExcludeCacheKey(breakpoint) == "exclude_" \o breakpoint

ExcludeAt(attrs, e, rs, breakpoint) ==
  ExcludeFlag(attrs, e, breakpoint, rs.w,
              cacheResponsiveValuesForElement(rs.cache, e), ExcludeCacheKey(breakpoint))

\* shouldExcludeAnimation(element): [ret, rs]
shouldExcludeAnimation(attrs, e, rs) ==
  ExcludeAt(attrs, e, rs, getCurrentBreakpoint(rs.bp, rs.w))

----------------------------------------------------------------------------
(* Responsive Value Resolver *)

\* the three tiers of getResponsiveValue on a cache miss (part_000:304-322)
Tiers(attrs, specific, generic, defaultValue) ==
  IF specific \in DOMAIN attrs \/ generic \in DOMAIN attrs
  THEN ParseAttr(attrs[IF specific \in DOMAIN attrs THEN specific ELSE generic])
  ELSE defaultValue

\* tiers in which the attribute of a wider breakpoint also applies, the
\* narrowest such breakpoint first
ResolveTiersCascading(attrs, paramName, breakpoint, defaultValue) ==
  LET wider == {b \in BreakpointNames :
                  /\ Range(b).order >= Range(breakpoint).order
                  /\ ("data-gsap-" \o paramName \o "-" \o b) \in DOMAIN attrs}
  IN IF wider = {}
     THEN Tiers(attrs, "data-gsap-" \o paramName \o "-" \o breakpoint,
                "data-gsap-" \o paramName, defaultValue)
     ELSE ParseAttr(attrs["data-gsap-" \o paramName \o "-" \o
                      (CHOOSE b \in wider :
                         \A c \in wider : Range(b).order <= Range(c).order)])

ResolveTiers(attrs, paramName, breakpoint, defaultValue) ==
  Tiers(attrs, "data-gsap-" \o paramName \o "-" \o breakpoint,
        "data-gsap-" \o paramName, defaultValue)

\* a key that does not name the breakpoint
ValueCacheKeyUnscoped(paramName, breakpoint) == paramName

\* the key of a parameter in the element's inner Map (part_000:299)
ValueCacheKey(paramName, breakpoint) == paramName \o "_" \o breakpoint

\* the cached value when there is one, else the value resolved and stored
CachedOr(e, breakpoint, w, cache1, cacheKey, value) ==
  IF Has(cache1[e], cacheKey)
  THEN [ret |-> cache1[e][cacheKey], hit |-> TRUE,
        rs |-> [w |-> w, bp |-> breakpoint, cache |-> cache1]]
  ELSE [ret |-> value, hit |-> FALSE,
        rs |-> [w |-> w, bp |-> breakpoint,
                cache |-> Put(cache1, e, Put(cache1[e], cacheKey, value))]]

ResolveAt(attrs, e, paramName, defaultValue, rs, breakpoint) ==
  CachedOr(e, breakpoint, rs.w, cacheResponsiveValuesForElement(rs.cache, e),
           ValueCacheKey(paramName, breakpoint),
           ResolveTiers(attrs, paramName, breakpoint, defaultValue))

\* getResponsiveValue(element, paramName, defaultValue): [ret, hit, rs]
getResponsiveValue(attrs, e, paramName, defaultValue, rs) ==
  ResolveAt(attrs, e, paramName, defaultValue, rs, getCurrentBreakpoint(rs.bp, rs.w))

----------------------------------------------------------------------------
(* Preset documents: JSON values *)

JNum(n) == [t |-> "num", n |-> n, s |-> <<>>, ent |-> <<>>]
JBool(b) == [t |-> "bool", n |-> IF b THEN 1 ELSE 0, s |-> <<>>, ent |-> <<>>]
JStr(s) == [t |-> "str", n |-> 0, s |-> s, ent |-> <<>>]
JNull == [t |-> "null", n |-> 0, s |-> <<>>, ent |-> <<>>]
JUndefined == [t |-> "undefined", n |-> 0, s |-> <<>>, ent |-> <<>>]
\* an object is the sequence of its entries [key, val], in Object.entries order
JObj(ent) == [t |-> "obj", n |-> 0, s |-> <<>>, ent |-> ent]

\* a method inherited from Object.prototype: truthy, without own entries
JFunc == [t |-> "func", n |-> 0, s |-> <<>>, ent |-> <<>>]

\* JavaScript truthiness
Truthy(v) ==
  CASE v.t = "num" -> v.n # 0
    [] v.t = "bool" -> v.n = 1
    [] v.t = "str" -> v.s # <<>>
    [] v.t \in {"obj", "func"} -> TRUE
    [] OTHER -> FALSE

\* the property names every object inherits from Object.prototype
ObjectPrototype ==
  {"constructor", "toString", "toLocaleString", "valueOf", "hasOwnProperty",
   "isPrototypeOf", "propertyIsEnumerable"}

\* obj[name] of a value that is not null: the own entry of that name, else the
\* property inherited from Object.prototype, else undefined
Lookup(obj, name) ==
  IF \E i \in 1..Len(obj.ent) : Join(obj.ent[i].key) = name
  THEN obj.ent[CHOOSE i \in 1..Len(obj.ent) : Join(obj.ent[i].key) = name].val
  ELSE IF name \in ObjectPrototype THEN JFunc
  ELSE JUndefined

RECURSIVE NatDigits(_)
NatDigits(n) ==
  IF n < 10 THEN <<Digits[n + 1]>> ELSE NatDigits(n \div 10) \o <<Digits[(n % 10) + 1]>>

\* String(value), as setAttribute applies it to its second argument
StringOf(v) ==
  CASE v.t = "num" -> IF v.n < 0 THEN <<"-">> \o NatDigits(0 - v.n) ELSE NatDigits(v.n)
    [] v.t = "bool" -> IF v.n = 1 THEN <<"true">> ELSE <<"false">>
    [] v.t = "str" -> v.s
    [] v.t = "obj" -> <<"[", "object", " ", "O", "bject", "]">>
    [] v.t = "null" -> <<"null">>
    [] v.t = "func" -> <<"function">>
    [] OTHER -> <<"undefined">>

----------------------------------------------------------------------------
(* Preset Expander *)

UpperCase == <<"A", "B", "C", "D", "E", "F", "G", "H", "I", "J", "K", "L", "M",
               "N", "O", "P", "Q", "R", "S", "T", "U", "V", "W", "X", "Y", "Z">>
LowerCase == <<"a", "b", "c", "d", "e", "f", "g", "h", "i", "j", "k", "l", "m",
               "n", "o", "p", "q", "r", "s", "t", "u", "v", "w", "x", "y", "z">>
IsUpper(c) == \E i \in 1..Len(UpperCase) : UpperCase[i] = c
ToLower(c) == LowerCase[CHOOSE i \in 1..Len(UpperCase) : UpperCase[i] = c]

RECURSIVE Kebab(_)
\* key.replace(/([A-Z])/g, '-$1').toLowerCase()
Kebab(key) ==
  IF key = <<>> THEN ""
  ELSE (IF IsUpper(Head(key)) THEN "-" \o ToLower(Head(key)) ELSE Head(key))
       \o Kebab(Tail(key))

toDataAttr(key) == "data-gsap-" \o Kebab(key)

\* the list of known breakpoints of the expander (part_000:43)
breakpoints == <<"desktop", "tablet", "mobile-l", "mobile-p">>

\* an expander that knows no breakpoint: every key is written directly
breakpointsIncludesNone(key) == FALSE

breakpointsIncludes(key) == \E i \in 1..Len(breakpoints) : breakpoints[i] = key

RECURSIVE WriteBreakpointEntriesPrefixed(_, _, _)
\* the breakpoint name put in front of the nested key instead of behind it
WriteBreakpointEntriesPrefixed(attrs, ent, bpKeyTokens) ==
  IF ent = <<>> THEN attrs
  ELSE WriteBreakpointEntriesPrefixed(
         Put(attrs, toDataAttr(bpKeyTokens \o <<"-">> \o Head(ent).key),
             StringOf(Head(ent).val)),
         Tail(ent), bpKeyTokens)

RECURSIVE WriteBreakpointEntries(_, _, _)
\* Object.entries(value).forEach: one attribute per nested key (part_000:81-83)
WriteBreakpointEntries(attrs, ent, bpKeyTokens) ==
  IF ent = <<>> THEN attrs
  ELSE WriteBreakpointEntries(
         Put(attrs, toDataAttr(Head(ent).key \o <<"-">> \o bpKeyTokens),
             StringOf(Head(ent).val)),
         Tail(ent), bpKeyTokens)

\* the callback without the test that protects an existing trigger
WriteEntryUnprotected(b, attrs, key, value) ==
  LET name == Join(key)
  IN IF name = "split" \/ (b = "responsive" /\ name = "exclude")
       THEN [attrs |-> attrs, threw |-> FALSE]
     ELSE IF b = "responsive" /\ breakpointsIncludes(name)
       THEN IF value.t = "obj"
              THEN [attrs |-> WriteBreakpointEntries(attrs, value.ent, key),
                    threw |-> FALSE]
            ELSE [attrs |-> attrs, threw |-> value.t = "null"]
     ELSE [attrs |-> Put(attrs, toDataAttr(key), StringOf(value)), threw |-> FALSE]

\* the callback of Object.entries(preset).forEach for one [key, value]
\* (part_000:71-89, script.js:60-66): [attrs, threw]
WriteEntry(b, attrs, key, value) ==
  LET name == Join(key)
  IN IF name = "split" \/ (b = "responsive" /\ name = "exclude")
       THEN [attrs |-> attrs, threw |-> FALSE]
     ELSE IF name = "trigger" /\ "data-gsap-trigger" \in DOMAIN attrs
       THEN [attrs |-> attrs, threw |-> FALSE]
     ELSE IF b = "responsive" /\ breakpointsIncludes(name)
       THEN IF value.t = "obj"
              THEN [attrs |-> WriteBreakpointEntries(attrs, value.ent, key),
                    threw |-> FALSE]
            ELSE IF value.t = "null"
              \* typeof null === 'object', and Object.entries(null) throws
              THEN [attrs |-> attrs, threw |-> TRUE]
            ELSE [attrs |-> attrs, threw |-> FALSE]
     ELSE [attrs |-> Put(attrs, toDataAttr(key), StringOf(value)), threw |-> FALSE]

RECURSIVE WriteEntries(_, _, _)
WriteEntries(b, attrs, ent) ==
  IF ent = <<>> THEN [attrs |-> attrs, threw |-> FALSE]
  ELSE LET r == WriteEntry(b, attrs, Head(ent).key, Head(ent).val)
       IN IF r.threw THEN r ELSE WriteEntries(b, r.attrs, Tail(ent))

\* a preset's exclude value appended to the element's list instead of replacing it
WriteExcludeAppending(attrs, exclude) ==
  IF ~Truthy(exclude) THEN attrs
  ELSE IF "data-gsap-exclude" \in DOMAIN attrs
  THEN Put(attrs, "data-gsap-exclude",
           attrs["data-gsap-exclude"] \o <<",">> \o StringOf(exclude))
  ELSE Put(attrs, "data-gsap-exclude", StringOf(exclude))

\* if (preset.exclude) element.setAttribute('data-gsap-exclude', preset.exclude)
WriteExclude(attrs, exclude) ==
  IF Truthy(exclude) THEN Put(attrs, "data-gsap-exclude", StringOf(exclude)) ELSE attrs

\* the callback of querySelectorAll(`[${typeAttr}]`).forEach for one element
\* (part_000:50-90, script.js:45-67): [attrs, threw, warned]
ExpandElement(b, attrs, presetGroup, typeAttr) ==
  IF presetGroup.t \in {"null", "undefined"}
  THEN [attrs |-> attrs, threw |-> TRUE, warned |-> FALSE]
  ELSE
    LET animationName == Join(attrs[typeAttr])
        preset == Lookup(presetGroup, animationName)
        a1 == IF Lookup(preset, "split") = JBool(TRUE)
              THEN Put(attrs, "data-gsap-split", <<"true">>) ELSE attrs
        a2 == IF b = "responsive" THEN WriteExclude(a1, Lookup(preset, "exclude")) ELSE a1
        r == WriteEntries(b, a2, preset.ent)
    IN IF ~Truthy(preset)
       THEN [attrs |-> attrs, threw |-> FALSE, warned |-> TRUE]
       ELSE [attrs |-> r.attrs, threw |-> r.threw, warned |-> FALSE]

\* the state of a pass: [attrs: element -> attributes, threw, warnings]
RECURSIVE ExpandElements(_, _, _, _, _)
ExpandElements(b, st, matched, presetGroup, typeAttr) ==
  IF matched = <<>> \/ st.threw THEN st
  ELSE LET e == Head(matched)
           r == ExpandElement(b, st.attrs[e], presetGroup, typeAttr)
       IN ExpandElements(b,
            [attrs |-> [st.attrs EXCEPT ![e] = r.attrs],
             threw |-> r.threw,
             warnings |-> st.warnings + (IF r.warned THEN 1 ELSE 0)],
            Tail(matched), presetGroup, typeAttr)

\* document.querySelectorAll(`[${typeAttr}]`), in document order
RECURSIVE Matching(_, _, _)
Matching(attrs, typeAttr, e) ==
  IF e > Len(attrs) THEN <<>>
  ELSE (IF typeAttr \in DOMAIN attrs[e] THEN <<e>> ELSE <<>>)
       \o Matching(attrs, typeAttr, e + 1)

RECURSIVE ExpandCategories(_, _, _)
\* Object.keys(presets).forEach (part_000:46-91, script.js:41-68)
ExpandCategories(b, st, cats) ==
  IF cats = <<>> \/ st.threw THEN st
  ELSE LET typeAttr == "data-gsap-" \o Join(Head(cats).key)
           st1 == ExpandElements(b, st, Matching(st.attrs, typeAttr, 1),
                                 Head(cats).val, typeAttr)
       IN ExpandCategories(b, st1, Tail(cats))

\* one pass of the expander over a document that was obtained
PresetExpander(b, doc, attrs) ==
  IF doc.t \in {"null", "undefined"}
  THEN [attrs |-> attrs, threw |-> TRUE, warnings |-> 0]   \* Object.keys(null)
  ELSE ExpandCategories(b, [attrs |-> attrs, threw |-> FALSE, warnings |-> 0], doc.ent)

----------------------------------------------------------------------------
(* Animation Drivers *)

\* the getResponsiveValue calls of each driver, in order, with their defaults
InitParams ==
  << <<"start-opacity", Num(0, 0)>>, <<"end-opacity", Num(1, 0)>>,
     <<"start-y", Num(0, 0)>>, <<"start-x", Num(0, 0)>>,
     <<"duration", Num(1, 0)>>, <<"delay", Num(0, 0)>>,
     <<"ease", Str(<<"power", "2", ".", "out">>)>> >>

ViewParams ==
  << <<"start-opacity", Num(0, 0)>>, <<"end-opacity", Num(1, 0)>>,
     <<"start-y", Num(0, 0)>>, <<"end-y", Num(0, 0)>>,
     <<"start-x", Num(0, 0)>>, <<"end-x", Num(0, 0)>>,
     <<"duration", Num(1, 0)>>, <<"delay", Num(0, 0)>>,
     <<"ease", Str(<<"power", "2", ".", "out">>)>> >>

ParallaxParams ==
  << <<"start-y", Num(0, 0)>>, <<"end-y", Num(0, 0)>>,
     <<"scrub", Num(1, 0)>>, <<"ease", Str(<<"none">>)>> >>

WordsParams ==
  << <<"start-opacity", Num(0, 0)>>, <<"end-opacity", Num(1, 0)>>,
     <<"start-y", Num(50, 0)>>, <<"end-y", Num(0, 0)>>,
     <<"start-x", Num(0, 0)>>, <<"end-x", Num(0, 0)>>,
     <<"duration", Num(1, 0)>>, <<"delay", Num(0, 0)>>,
     <<"stagger", Num(1, 1)>>, <<"ease", Str(<<"power", "2", ".", "out">>)>> >>

ScrollwordsParams ==
  << <<"start-y", Num(30, 0)>>, <<"end-y", Num(0, 0)>>,
     <<"start-x", Num(0, 0)>>, <<"end-x", Num(0, 0)>>,
     <<"start-opacity", Num(0, 0)>>, <<"end-opacity", Num(1, 0)>>,
     <<"scrub", Num(2, 0)>>, <<"word-spread", Num(5, 1)>>,
     <<"ease", Str(<<"none">>)>> >>

\* getScrollPositions resolves both positions, whichever the caller uses
ScrollPositionParams ==
  << <<"start", Str(<<"top", " ", "bottom">>)>>,
     <<"end", Str(<<"bottom", " ", "top">>)>> >>

RECURSIVE ResolveAll(_, _, _, _)
\* consecutive getResponsiveValue calls on one element: the resolver state after
ResolveAll(attrs, e, params, rs) ==
  IF params = <<>> THEN rs
  ELSE ResolveAll(attrs, e, Tail(params),
                  getResponsiveValue(attrs, e, Head(params)[1], Head(params)[2], rs).rs)

getScrollPositions(attrs, e, rs) == ResolveAll(attrs, e, ScrollPositionParams, rs)

Call(driver, e, api) == [driver |-> driver, el |-> e, api |-> api]

\* setupAnimatedHeading(element): the icon is hidden and the text is split
\* unless it already holds .split-word spans; the requests it issues
setupAnimatedHeading(driver, e, sp) ==
  (IF "data-heading-icon" \in DOMAIN dom[e].attrs /\ dom[e].icon
   THEN {Call(driver, e, "gsap.set")} ELSE {})
  \cup (IF e \in sp THEN {} ELSE {Call(driver, e, "SplitType")})

UsesHeading(driver) == driver \in {"words", "scrollwords"}

\* the words driver creates a ScrollTrigger only for these elements
Triggered(e) ==
  "data-gsap-trigger" \in DOMAIN dom[e].attrs \/ "data-gsap-start" \in DOMAIN dom[e].attrs

DriverParams(driver) ==
  CASE driver = "init" -> InitParams
    [] driver = "view" -> ViewParams
    [] driver = "parallax" -> ParallaxParams
    [] driver = "words" -> WordsParams
    [] driver = "scrollwords" -> ScrollwordsParams

\* whether the driver calls getScrollPositions for the element
UsesScrollPositions(driver, e) ==
  \/ driver \in {"view", "parallax", "scrollwords"}
  \/ driver = "words" /\ dom[e].words > 0 /\ Triggered(e)

\* the Animator requests of a driver for an element it animates
AnimationRequests(driver, e) ==
  CASE driver \in {"init", "view"} -> {Call(driver, e, "gsap.fromTo")}
    [] driver = "parallax" -> {Call(driver, e, "gsap.to")}
    [] driver = "words" ->
         {Call(driver, e, "gsap.set"), Call(driver, e, "gsap.to")}
         \cup (IF Triggered(e) THEN {Call(driver, e, "ScrollTrigger.create")} ELSE {})
    [] driver = "scrollwords" ->
         {Call(driver, e, "gsap.set"), Call(driver, e, "gsap.timeline")}

\* a words driver gives up on a text without words
NoWords(driver, e) == UsesHeading(driver) /\ dom[e].words = 0

WithScrollPositions(driver, e, rs) ==
  IF UsesScrollPositions(driver, e) THEN getScrollPositions(dom[e].attrs, e, rs) ELSE rs

\* the state the drivers work on: [rs, calls, split]
\* what a driver does for an element once it is known not to be excluded
DriverBody(driver, e, ds) ==
  [rs |-> WithScrollPositions(driver, e,
            ResolveAll(dom[e].attrs, e, DriverParams(driver), ds.rs)),
   calls |-> ds.calls
             \cup (IF UsesHeading(driver) THEN setupAnimatedHeading(driver, e, ds.split)
                   ELSE {})
             \cup (IF NoWords(driver, e) THEN {} ELSE AnimationRequests(driver, e)),
   split |-> IF UsesHeading(driver) /\ dom[e].words > 0
             THEN ds.split \cup {e} ELSE ds.split]

\* a driver that evaluates the exclusion and animates the element whatever
\* the answer is
ProceedAlways(driver, e, ds, x) ==
  IF x.ret \in {Bool(TRUE), Bool(FALSE)}
  THEN DriverBody(driver, e, [rs |-> x.rs, calls |-> ds.calls, split |-> ds.split])
  ELSE [rs |-> x.rs, calls |-> ds.calls, split |-> ds.split]

\* a driver that reads its parameters before it gives up on an excluded element
ProceedResolving(driver, e, ds, x) ==
  IF x.ret = Bool(TRUE)
  THEN [rs |-> ResolveAll(dom[e].attrs, e, DriverParams(driver), x.rs),
        calls |-> ds.calls, split |-> ds.split]
  ELSE DriverBody(driver, e, [rs |-> x.rs, calls |-> ds.calls, split |-> ds.split])

Proceed(driver, e, ds, x) ==
  IF x.ret = Bool(TRUE)
  THEN [rs |-> x.rs, calls |-> ds.calls, split |-> ds.split]
  ELSE DriverBody(driver, e, [rs |-> x.rs, calls |-> ds.calls, split |-> ds.split])

\* the forEach callback of a driver for one element (part_000:434-876)
DriverElement(driver, e, ds) ==
  IF driver = "view" /\ "data-gsap-init" \in DOMAIN dom[e].attrs
  THEN ds
  ELSE Proceed(driver, e, ds, shouldExcludeAnimation(dom[e].attrs, e, ds.rs))

RECURSIVE DriverElements(_, _, _)
DriverElements(driver, matched, ds) ==
  IF matched = <<>> THEN ds
  ELSE DriverElements(driver, Tail(matched), DriverElement(driver, Head(matched), ds))

DomAttrs == [e \in Elements |-> dom[e].attrs]

\* document.querySelectorAll('[data-gsap-<driver>]').forEach(...)
RunDriver(driver) ==
  DriverElements(driver, Matching(DomAttrs, "data-gsap-" \o driver, 1),
                 [rs |-> ResolverState, calls |-> calls, split |-> split])

----------------------------------------------------------------------------
(* The pages the model is run on *)

Entry(key, val) == [key |-> key, val |-> val]

\* {"view": {"fadeUp": {"up": true, "start-y": 40, "tablet": {"start-y": 20}}}}
DocFadeUp ==
  JObj(<< Entry(<<"view">>, JObj(<<
            Entry(<<"fade", "U", "p">>, JObj(<<
              Entry(<<"up">>, JBool(TRUE)),
              Entry(<<"start", "-", "y">>, JNum(40)),
              Entry(<<"tablet">>, JObj(<< Entry(<<"start", "-", "y">>, JNum(20)) >>)) >>)) >>)) >>)

\* {"init": {"up": {"startY": 30, "exclude": "tablet", "trigger": ".hero"}},
\*  "words": {"up": {"split": true, "startY": 10, "trigger": ".intro",
\*                   "mobile-p": {"startY": 5}, "desktop": 3}}}
DocInitWords ==
  JObj(<< Entry(<<"init">>, JObj(<<
            Entry(<<"up">>, JObj(<<
              Entry(<<"start", "Y">>, JNum(30)),
              Entry(<<"exclude">>, JStr(<<"tablet">>)),
              Entry(<<"trigger">>, JStr(<<".", "hero">>)) >>)) >>)),
          Entry(<<"words">>, JObj(<<
            Entry(<<"up">>, JObj(<<
              Entry(<<"split">>, JBool(TRUE)),
              Entry(<<"start", "Y">>, JNum(10)),
              Entry(<<"trigger">>, JStr(<<".", "intro">>)),
              Entry(<<"mobile", "-", "p">>, JObj(<< Entry(<<"start", "Y">>, JNum(5)) >>)),
              Entry(<<"desktop">>, JNum(3)) >>)) >>)) >>)

\* {"init": {"up": {"duration": 2}}, "view": {"fadeUp": {"init": "up", "startY": 40}}}
\* the view preset writes the selector of the init category, which ran before it
DocSelectorKey ==
  JObj(<< Entry(<<"init">>, JObj(<<
            Entry(<<"up">>, JObj(<< Entry(<<"duration">>, JNum(2)) >>)) >>)),
          Entry(<<"view">>, JObj(<<
            Entry(<<"fade", "U", "p">>, JObj(<<
              Entry(<<"init">>, JStr(<<"up">>)),
              Entry(<<"start", "Y">>, JNum(40)) >>)) >>)) >>)

\* {"view": {"fadeUp": {"endY": 0, "tablet": null}}, "parallax": null}
DocNulls ==
  JObj(<< Entry(<<"view">>, JObj(<<
            Entry(<<"fade", "U", "p">>, JObj(<<
              Entry(<<"end", "Y">>, JNum(0)),
              Entry(<<"tablet">>, JNull) >>)) >>)),
          Entry(<<"parallax">>, JNull) >>)

PresetSources ==
  { [src |-> "global", doc |-> DocFadeUp],
    [src |-> "element", doc |-> DocInitWords],
    [src |-> "element", doc |-> DocSelectorKey],
    [src |-> "global", doc |-> DocNulls],
    [src |-> "malformed", doc |-> JUndefined],
    [src |-> "none", doc |-> JUndefined] }

Element(attrs, words, icon) == [attrs |-> attrs, words |-> words, icon |-> icon]
Attr(name, value) == name :> value

\* an element of every category but view, excluded at mobile-p
ElAllExcludeMobileP ==
  Element(Attr("data-gsap-init", <<"up">>) @@ Attr("data-gsap-parallax", <<"y">>)
          @@ Attr("data-gsap-words", <<"up">>) @@ Attr("data-gsap-scrollwords", <<"up">>)
          @@ Attr("data-gsap-exclude", <<"mobile", "-", "p">>)
          @@ Attr("data-heading-icon", <<>>), 2, TRUE)

ElViewExcludeMobileP ==
  Element(Attr("data-gsap-view", <<"fade", "U", "p">>)
          @@ Attr("data-gsap-exclude", <<"mobile", "-", "p">>)
          @@ Attr("data-gsap-start-y-desktop", <<"1", "2", ".", "5">>), 2, FALSE)

ElView == Element(Attr("data-gsap-view", <<"fade", "U", "p">>), 2, FALSE)

\* manual overrides that the preset overwrites
ElViewManual ==
  Element(Attr("data-gsap-view", <<"fade", "U", "p">>)
          @@ Attr("data-gsap-start-y", <<"7">>)
          @@ Attr("data-gsap-start-y-tablet", <<"9", "9">>)
          @@ Attr("data-gsap-ease", <<"none">>), 1, FALSE)

ElInitExcludeTablet ==
  Element(Attr("data-gsap-init", <<"up">>)
          @@ Attr("data-gsap-exclude", <<" ", "tablet", ",", "phone">>)
          @@ Attr("data-gsap-trigger", <<".", "own">>), 1, FALSE)

\* two categories asking for start-y with different defaults
ElParallaxWords ==
  Element(Attr("data-gsap-parallax", <<"y">>) @@ Attr("data-gsap-words", <<"up">>), 2, TRUE)

ElWordsEmpty ==
  Element(Attr("data-gsap-words", <<"up">>) @@ Attr("data-gsap-exclude-tablet", <<>>)
          @@ Attr("data-gsap-start", <<"8", "0", "%", " ", "bottom">>), 0, FALSE)

ElInitAndView ==
  Element(Attr("data-gsap-init", <<"up">>) @@ Attr("data-gsap-view", <<"fade", "U", "p">>)
          @@ Attr("data-gsap-split", <<"true">>), 2, FALSE)

\* names without a preset: an unknown one and one that every object inherits
ElViewUnknown ==
  Element(Attr("data-gsap-view", <<"zoom">>)
          @@ Attr("data-gsap-start-y", <<"1", "2", ".", "5">>)
          @@ Attr("data-gsap-start", <<"top", " ", "bottom">>)
          @@ Attr("data-gsap-end-tablet", <<"top", " ", "bottom">>)
          @@ Attr("data-gsap-exclude-mobile-l", <<"false">>), 2, FALSE)
ElViewConstructor == Element(Attr("data-gsap-view", <<"constructor">>), 2, FALSE)

Doms ==
  { <<ElAllExcludeMobileP, ElViewExcludeMobileP>>,
    <<ElViewUnknown, ElViewConstructor, ElView>>,
    <<ElView, ElInitExcludeTablet>>,
    <<ElViewManual, ElParallaxWords>>,
    <<ElWordsEmpty, ElInitAndView>> }

\* one width of every range, each the last or the first of its range
Widths == {479, 767, 991, 992}

Builds == {"responsive", "legacy"}

\* the resolver calls made once the page is ready
QueryParams == {"start-y"}
QueryDefaults == {Num(0, 0), Num(50, 0)}

----------------------------------------------------------------------------
(* Initial state: the page before its script runs *)

\* no time has passed and no timer was set
ClockAtLoad ==
  /\ now = 0
  /\ timers = {}
  /\ timerId = 0
  /\ burst = [first |-> 0 - 1, last |-> 0 - 1, runs |-> 0]

NoCursorTimers == [show |-> [dropdowns |-> 0, links |-> 0], leave |-> {}]

CursorClosure ==
  [currentDropdown |-> "null", dropdownRect |-> "null",
   currentWorkItem |-> "null", workItemRect |-> "null",
   hasMouseMoved |-> FALSE, cursorIsReady |-> FALSE,
   dropdownLeaveTimeout |-> 0, isHoveringDropdown |-> FALSE]

CursorHidden ==
  [dropdowns |-> [active |-> FALSE, visible |-> FALSE],
   links |-> [active |-> FALSE, visible |-> FALSE]]

\* a page without the elements of the custom cursor
NoCursor ==
  /\ cursorPage = [dropdowns |-> FALSE, links |-> FALSE, wrappers |-> FALSE]
  /\ cursorPc = "setup"
  /\ pointer = "none"
  /\ cursor = CursorClosure
  /\ cursorView = CursorHidden
  /\ cursorTimers = NoCursorTimers
  /\ cursorErrors = FALSE

NoQuery == [e |-> 0, param |-> "", def |-> Null, ret |-> Null, hit |-> FALSE, bp |-> "null"]

Outcome(op, bpBefore, hadEntries, cleared, refreshed, q) ==
  [op |-> op, bpBefore |-> bpBefore, hadEntries |-> hadEntries,
   cleared |-> cleared, refreshed |-> refreshed, q |-> q]

Init ==
  /\ build \in Builds
  /\ presets \in PresetSources
  /\ dom \in Doms
  /\ width \in Widths
  /\ pc = "expand"
  /\ currentBreakpoint = "null"
  /\ responsiveValueCache = EmptyMap
  /\ resizeTimeout = FALSE
  /\ orientTimers = 0
  /\ calls = {}
  /\ split = {}
  /\ log = [errors |-> 0, warnings |-> 0]
  /\ last = Outcome("none", "null", FALSE, FALSE, FALSE, NoQuery)
  /\ ClockAtLoad
  /\ NoCursor

----------------------------------------------------------------------------
(* Page load: the top-level statements of the script, in order.  They run   *)
(* in one synchronous task, so no event is handled before pc = "ready".     *)

Loaded(op) == Outcome(op, currentBreakpoint, responsiveValueCache # EmptyMap,
                      FALSE, FALSE, NoQuery)

\* an expander that raises an error on a missing or unparsable document
\* instead of returning
ExpandPresetsThrowing ==
  /\ pc = "expand"
  /\ IF presets.src \in {"none", "malformed"}
     THEN /\ log' = [errors |-> 1, warnings |-> 0]
          /\ pc' = "crashed"
          /\ dom' = dom
     ELSE LET r == PresetExpander(build, presets.doc, DomAttrs)
          IN /\ dom' = [e \in Elements |-> [dom[e] EXCEPT !.attrs = r.attrs[e]]]
             /\ log' = [errors |-> 0, warnings |-> r.warnings]
             /\ pc' = IF r.threw THEN "crashed" ELSE "split"
  /\ last' = Loaded("expand")
  /\ UNCHANGED <<build, presets, width, currentBreakpoint, responsiveValueCache,
                 resizeTimeout, orientTimers, calls, split>>
  /\ UNCHANGED <<timeVars, cursorVars>>

\* the Preset Expander IIFE (part_000:16-92, script.js:14-69)
ExpandPresets ==
  /\ pc = "expand"
  /\ IF presets.src \in {"none", "malformed"}
     THEN /\ log' = [errors |-> 1, warnings |-> 0]
          /\ pc' = "split"
          /\ dom' = dom
     ELSE LET r == PresetExpander(build, presets.doc, DomAttrs)
          IN /\ dom' = [e \in Elements |-> [dom[e] EXCEPT !.attrs = r.attrs[e]]]
             /\ log' = [errors |-> 0, warnings |-> r.warnings]
             \* an uncaught TypeError ends the script
             /\ pc' = IF r.threw THEN "crashed" ELSE "split"
  /\ last' = Loaded("expand")
  /\ UNCHANGED <<build, presets, width, currentBreakpoint, responsiveValueCache,
                 resizeTimeout, orientTimers, calls, split>>
  /\ UNCHANGED <<timeVars, cursorVars>>

\* elements the split IIFE splits (part_000:181-199)
SplitTargets ==
  {e \in Elements :
     /\ "data-gsap-split" \in DOMAIN dom[e].attrs
     /\ dom[e].attrs["data-gsap-split"] = <<"true">>
     /\ "data-gsap-words" \notin DOMAIN dom[e].attrs
     /\ "data-gsap-scrollwords" \notin DOMAIN dom[e].attrs
     /\ e \notin split}

SplitStage ==
  /\ pc = "split"
  /\ calls' = calls \cup {Call("split", e, "SplitType") : e \in SplitTargets}
  /\ split' = split \cup {e \in SplitTargets : dom[e].words > 0}
  /\ pc' = IF build = "responsive" THEN "init" ELSE "legacy"
  /\ last' = Loaded("split")
  /\ UNCHANGED <<build, presets, dom, width, currentBreakpoint, responsiveValueCache,
                 resizeTimeout, orientTimers, log>>
  /\ UNCHANGED <<timeVars, cursorVars>>

DriverStage(driver, next) ==
  /\ pc = driver
  /\ LET ds == RunDriver(driver)
     IN /\ currentBreakpoint' = ds.rs.bp
        /\ responsiveValueCache' = ds.rs.cache
        /\ calls' = ds.calls
        /\ split' = ds.split
  /\ pc' = next
  /\ last' = Loaded(driver)
  /\ UNCHANGED <<build, presets, dom, width, resizeTimeout, orientTimers, log>>
  /\ UNCHANGED <<timeVars, cursorVars>>

InitDriver == DriverStage("init", "view")
ViewDriver == DriverStage("view", "parallax")
ParallaxDriver == DriverStage("parallax", "words")
WordsDriver == DriverStage("words", "scrollwords")
ScrollwordsDriver == DriverStage("scrollwords", "listeners")

\* initOptimizations() -> setupResponsiveListeners() (part_000:379-425, 880)
initOptimizations ==
  /\ pc = "listeners"
  /\ currentBreakpoint' = getCurrentBreakpoint(currentBreakpoint, width)
  /\ pc' = "ready"
  /\ last' = Loaded("listeners")
  /\ UNCHANGED <<build, presets, dom, width, responsiveValueCache, resizeTimeout,
                 orientTimers, calls, split, log>>
  /\ UNCHANGED <<timeVars, cursorVars>>

----------------------------------------------------------------------------
(* Events of the loaded page *)

\* a resize event: the debounce timer is restarted (part_000:387-390)
Resize(w) ==
  /\ pc = "ready"
  /\ width' = w
  /\ resizeTimeout' = TRUE
  /\ last' = Outcome("resize", currentBreakpoint, responsiveValueCache # EmptyMap,
                     FALSE, FALSE, NoQuery)
  /\ UNCHANGED <<build, presets, dom, pc, currentBreakpoint, responsiveValueCache,
                 orientTimers, calls, split, log>>
  /\ UNCHANGED <<timeVars, cursorVars>>

\* the body of the debounced resize callback: [bp, cache, cleared, refreshed]
ResizeCallback(cb, cache, w) ==
  LET newBreakpoint == getCurrentBreakpoint(cb, w)
  IN IF newBreakpoint # cb
     THEN [bp |-> newBreakpoint, cache |-> EmptyMap, cleared |-> TRUE, refreshed |-> TRUE]
     ELSE [bp |-> cb, cache |-> cache, cleared |-> FALSE, refreshed |-> FALSE]

\* the resize timer fires, 250 ms after the last resize event (part_000:390-401)
ResizeTimerFires ==
  /\ pc = "ready"
  /\ resizeTimeout
  /\ LET r == ResizeCallback(currentBreakpoint, responsiveValueCache, width)
     IN /\ currentBreakpoint' = r.bp
        /\ responsiveValueCache' = r.cache
        /\ last' = Outcome("resizeTimer", currentBreakpoint,
                           responsiveValueCache # EmptyMap, r.cleared, r.refreshed, NoQuery)
  /\ resizeTimeout' = FALSE
  /\ UNCHANGED <<build, presets, dom, pc, width, orientTimers, calls, split, log>>
  /\ UNCHANGED <<timeVars, cursorVars>>

\* an orientationchange event starts a timer of its own (part_000:405-407)
OrientationChange(w) ==
  /\ pc = "ready"
  /\ orientTimers < MaxOrientTimers
  /\ width' = w
  /\ orientTimers' = orientTimers + 1
  /\ last' = Outcome("orientationchange", currentBreakpoint,
                     responsiveValueCache # EmptyMap, FALSE, FALSE, NoQuery)
  /\ UNCHANGED <<build, presets, dom, pc, currentBreakpoint, responsiveValueCache,
                 resizeTimeout, calls, split, log>>
  /\ UNCHANGED <<timeVars, cursorVars>>

\* an orientationchange callback that clears only on a changed breakpoint
OrientationCallbackIfChanged(cb, cache, w) ==
  IF getCurrentBreakpoint(cb, w) # cb
  THEN [bp |-> getCurrentBreakpoint(cb, w), cache |-> EmptyMap,
        cleared |-> TRUE, refreshed |-> TRUE]
  ELSE [bp |-> cb, cache |-> cache, cleared |-> FALSE, refreshed |-> FALSE]

\* the body of the orientationchange callback: [bp, cache, cleared, refreshed]
OrientationCallback(cb, cache, w) ==
  [bp |-> getCurrentBreakpoint(cb, w), cache |-> EmptyMap,
   cleared |-> TRUE, refreshed |-> TRUE]

\* an orientation timer fires, 350 ms after its event (part_000:407-414)
OrientationTimerFires ==
  /\ pc = "ready"
  /\ orientTimers > 0
  /\ LET r == OrientationCallback(currentBreakpoint, responsiveValueCache, width)
     IN /\ currentBreakpoint' = r.bp
        /\ responsiveValueCache' = r.cache
        /\ last' = Outcome("orientationTimer", currentBreakpoint,
                           responsiveValueCache # EmptyMap, r.cleared, r.refreshed, NoQuery)
  /\ orientTimers' = orientTimers - 1
  /\ UNCHANGED <<build, presets, dom, pc, width, resizeTimeout, calls, split, log>>
  /\ UNCHANGED <<timeVars, cursorVars>>

\* a call getResponsiveValue(element, paramName, defaultValue) on the loaded page
Query(e, paramName, defaultValue) ==
  /\ pc = "ready"
  /\ LET r == getResponsiveValue(dom[e].attrs, e, paramName, defaultValue, ResolverState)
     IN /\ currentBreakpoint' = r.rs.bp
        /\ responsiveValueCache' = r.rs.cache
        /\ last' = Outcome("query", currentBreakpoint, responsiveValueCache # EmptyMap,
                           FALSE, FALSE,
                           [e |-> e, param |-> paramName, def |-> defaultValue,
                            ret |-> r.ret, hit |-> r.hit, bp |-> r.rs.bp])
  /\ UNCHANGED <<build, presets, dom, pc, width, resizeTimeout, orientTimers,
                 calls, split, log>>
  /\ UNCHANGED <<timeVars, cursorVars>>

Next ==
  \/ ExpandPresets
  \/ SplitStage
  \/ InitDriver
  \/ ViewDriver
  \/ ParallaxDriver
  \/ WordsDriver
  \/ ScrollwordsDriver
  \/ initOptimizations
  \/ \E w \in Widths : Resize(w)
  \/ ResizeTimerFires
  \/ \E w \in Widths : OrientationChange(w)
  \/ OrientationTimerFires
  \/ \E e \in Elements, p \in QueryParams, d \in QueryDefaults : Query(e, p, d)

Spec == Init /\ [][Next]_vars

----------------------------------------------------------------------------
(* The resize listener in time.  A timer set at time t with delay d is due   *)
(* at t + d and runs when the clock shows its due time; the clock does not   *)
(* pass a due timer.                                                         *)

\* the delay of the debounce timer (part_000:401)
ResizeDelay == 250

\* the steps of the clock in milliseconds
Steps == {50, 100}

DebounceWidths == {767, 992}

\* a clearTimeout that cancels nothing
clearTimeoutNothing(tm, id) == tm

\* clearTimeout(id): the timer of that id is cancelled, if it is pending
clearTimeout(tm, id) == {t \in tm : t.id # id}

\* setTimeout(callback, delay) at time t: the timer table with the new timer
setTimeout(tm, id, t, delay) == tm \cup {[id |-> id, due |-> t + delay]}

\* the id setTimeout returns: one that no pending timer has and that is not
\* the one handed out before
NewTimerId(tm, id) ==
  CHOOSE i \in 1..(MaxPending + 1) : i # id /\ \A t \in tm : t.id # i

\* the first event of the burst the event at time t belongs to
BurstFirst(t) ==
  IF burst.last >= 0 /\ burst.runs = 0 /\ t - burst.last < ResizeDelay
  THEN burst.first ELSE t

\* a resize event at the current time (part_000:387-390, 401)
ResizeEvent(w) ==
  /\ pc = "ready"
  /\ Cardinality(clearTimeout(timers, timerId)) < MaxPending
  /\ width' = w
  /\ timerId' = NewTimerId(clearTimeout(timers, timerId), timerId)
  /\ timers' = setTimeout(clearTimeout(timers, timerId), timerId', now, ResizeDelay)
  /\ resizeTimeout' = TRUE
  /\ burst' = [first |-> BurstFirst(now), last |-> now, runs |-> 0]
  /\ last' = Outcome("resize", currentBreakpoint, responsiveValueCache # EmptyMap,
                     FALSE, FALSE, NoQuery)
  /\ UNCHANGED <<build, presets, dom, pc, currentBreakpoint, responsiveValueCache,
                 orientTimers, calls, split, log, now, cursorVars>>

\* a resize timer is due: its callback runs (part_000:390-401)
ResizeTimerDue ==
  /\ pc = "ready"
  /\ \E t \in timers :
       /\ t.due = now
       /\ timers' = timers \ {t}
  /\ LET r == ResizeCallback(currentBreakpoint, responsiveValueCache, width)
     IN /\ currentBreakpoint' = r.bp
        /\ responsiveValueCache' = r.cache
        /\ last' = Outcome("resizeTimer", currentBreakpoint,
                           responsiveValueCache # EmptyMap, r.cleared, r.refreshed, NoQuery)
  /\ resizeTimeout' = (timers' # {})
  /\ burst' = [burst EXCEPT !.runs = @ + 1]
  /\ UNCHANGED <<build, presets, dom, pc, width, orientTimers, calls, split, log,
                 now, timerId, cursorVars>>

\* time passes, up to the next due time
Tick(d) ==
  /\ pc = "ready"
  /\ now + d <= MaxTime
  /\ \A t \in timers : now + d <= t.due
  /\ now' = now + d
  /\ last' = Outcome("tick", currentBreakpoint, responsiveValueCache # EmptyMap,
                     FALSE, FALSE, NoQuery)
  /\ UNCHANGED <<build, presets, dom, pc, width, currentBreakpoint,
                 responsiveValueCache, resizeTimeout, orientTimers, calls, split, log,
                 timers, timerId, burst, cursorVars>>

DebounceInit ==
  /\ build = "responsive"
  /\ presets = [src |-> "global", doc |-> DocFadeUp]
  /\ dom = <<ElView>>
  /\ width \in DebounceWidths
  /\ pc = "expand"
  /\ currentBreakpoint = "null"
  /\ responsiveValueCache = EmptyMap
  /\ resizeTimeout = FALSE
  /\ orientTimers = 0
  /\ calls = {}
  /\ split = {}
  /\ log = [errors |-> 0, warnings |-> 0]
  /\ last = Outcome("none", "null", FALSE, FALSE, FALSE, NoQuery)
  /\ ClockAtLoad
  /\ NoCursor

DebounceNext ==
  \/ ExpandPresets
  \/ SplitStage
  \/ InitDriver
  \/ ViewDriver
  \/ ParallaxDriver
  \/ WordsDriver
  \/ ScrollwordsDriver
  \/ initOptimizations
  \/ \E w \in DebounceWidths : ResizeEvent(w)
  \/ ResizeTimerDue
  \/ \E d \in Steps : Tick(d)

DebounceSpec == DebounceInit /\ [][DebounceNext]_vars

----------------------------------------------------------------------------
(* Headings with an icon: the page load followed by DOMContentLoaded *)

ElHeadingIcon == Element(Attr("data-heading-icon", <<>>), 2, TRUE)

\* the parent of this heading holds no .heading-icon
ElHeadingNoIcon == Element(Attr("data-heading-icon", <<>>), 2, FALSE)

ElWordsIconExcludeTablet ==
  Element(Attr("data-gsap-words", <<"up">>) @@ Attr("data-gsap-exclude", <<"tablet">>)
          @@ Attr("data-heading-icon", <<>>), 3, TRUE)

ElScrollwordsIcon ==
  Element(Attr("data-gsap-scrollwords", <<"up">>) @@ Attr("data-heading-icon", <<>>),
          2, TRUE)

IconDoms ==
  { <<ElHeadingIcon, ElWordsIconExcludeTablet>>,
    <<ElScrollwordsIcon, ElHeadingNoIcon>>,
    <<ElWordsEmpty, ElHeadingIcon, ElParallaxWords>> }

IconPresets ==
  { [src |-> "element", doc |-> DocInitWords],
    [src |-> "none", doc |-> JUndefined] }

\* the headings the DOMContentLoaded handler works on (part_000:148-154)
PlainHeadings ==
  {e \in Elements :
     /\ "data-heading-icon" \in DOMAIN dom[e].attrs
     /\ "data-gsap-words" \notin DOMAIN dom[e].attrs
     /\ "data-gsap-scrollwords" \notin DOMAIN dom[e].attrs}

\* the icon is moved into the last word and faded in (part_000:160-170)
AttachIcon(e) ==
  IF dom[e].icon /\ dom[e].words > 0
  THEN {Call("icons", e, "appendChild"), Call("icons", e, "gsap.to")}
  ELSE {}

\* the DOMContentLoaded handler of the headings without word animations
HeadingIconHandler ==
  /\ pc = "ready"
  /\ calls' = calls \cup UNION {setupAnimatedHeading("icons", e, split) \cup AttachIcon(e) :
                                 e \in PlainHeadings}
  /\ split' = split \cup {e \in PlainHeadings : dom[e].words > 0}
  /\ pc' = "loaded"
  /\ last' = Loaded("icons")
  /\ UNCHANGED <<build, presets, dom, width, currentBreakpoint, responsiveValueCache,
                 resizeTimeout, orientTimers, log>>
  /\ UNCHANGED <<timeVars, cursorVars>>

IconInit ==
  /\ build = "responsive"
  /\ presets \in IconPresets
  /\ dom \in IconDoms
  /\ width \in Widths
  /\ pc = "expand"
  /\ currentBreakpoint = "null"
  /\ responsiveValueCache = EmptyMap
  /\ resizeTimeout = FALSE
  /\ orientTimers = 0
  /\ calls = {}
  /\ split = {}
  /\ log = [errors |-> 0, warnings |-> 0]
  /\ last = Outcome("none", "null", FALSE, FALSE, FALSE, NoQuery)
  /\ ClockAtLoad
  /\ NoCursor

IconNext ==
  \/ ExpandPresets
  \/ SplitStage
  \/ InitDriver
  \/ ViewDriver
  \/ ParallaxDriver
  \/ WordsDriver
  \/ ScrollwordsDriver
  \/ initOptimizations
  \/ HeadingIconHandler

IconSpec == IconInit /\ [][IconNext]_vars

----------------------------------------------------------------------------
(* Page loads at every viewport width: a page without animated elements,   *)
(* whose first getCurrentBreakpoint() call is the one of the listener       *)
(* set-up, and a page with one, whose first call is made by its driver      *)

WidthDoms == { <<>>, <<ElView>> }

WidthInit ==
  /\ build = "responsive"
  /\ presets = [src |-> "none", doc |-> JUndefined]
  /\ dom \in WidthDoms
  /\ width \in 0..MaxWidth
  /\ pc = "expand"
  /\ currentBreakpoint = "null"
  /\ responsiveValueCache = EmptyMap
  /\ resizeTimeout = FALSE
  /\ orientTimers = 0
  /\ calls = {}
  /\ split = {}
  /\ log = [errors |-> 0, warnings |-> 0]
  /\ last = Outcome("none", "null", FALSE, FALSE, FALSE, NoQuery)
  /\ ClockAtLoad
  /\ NoCursor

WidthNext ==
  \/ ExpandPresets
  \/ SplitStage
  \/ InitDriver
  \/ ViewDriver
  \/ ParallaxDriver
  \/ WordsDriver
  \/ ScrollwordsDriver
  \/ initOptimizations

WidthSpec == WidthInit /\ [][WidthNext]_vars

----------------------------------------------------------------------------
(* Custom cursor (part_000:888-1288, script.js:636-880).  The handlers work  *)
(* on cs = [c, v, t, err]: the closure variables, the two cursor elements,   *)
(* the pending timers and whether a TypeError was raised.  A handler that    *)
(* raises an error keeps what it assigned before.  Positions, rotations and  *)
(* the cursor texts are left out.                                            *)

DropdownsWithCheckbox == {"dropdownA", "dropdownB"}
DropdownsPlain == {"dropdownPlain"}
WorkItems == {"workItem"}
HoverTargets == DropdownsWithCheckbox \cup DropdownsPlain \cup WorkItems

CursorState ==
  [c |-> cursor, v |-> cursorView, t |-> cursorTimers, err |-> cursorErrors]

\* window.matchMedia('(max-width: 991px)').matches
isMobile == width <= 991

\* showCursorWhenReady(cursorElement, x, y) (part_000:965-989)
showCursorWhenReady(cs, el) ==
  IF ~cursorPage[el] \/ ~cs.c.hasMouseMoved THEN cs
  ELSE IF ~cs.v[el].active THEN cs
  ELSE IF ~cs.c.cursorIsReady THEN [cs EXCEPT !.t.show[el] = @ + 1]
  ELSE cs

\* the callback of the 20 ms timer of showCursorWhenReady (part_000:978-986)
ShowTimerCallback(cs, el) ==
  [cs EXCEPT !.v[el].visible = TRUE, !.c.cursorIsReady = TRUE]

\* the mousemove listener (part_000:993-1076)
Mousemove(cs) ==
  LET m == [cs EXCEPT !.c.hasMouseMoved = TRUE]
  IN IF ~cursorPage.wrappers THEN m
     ELSE IF m.c.currentDropdown # "null" /\ m.c.dropdownRect # "null"
     THEN showCursorWhenReady(m, "dropdowns")
     ELSE IF m.c.currentWorkItem # "null" /\ m.c.workItemRect # "null" /\ cursorPage.links
     THEN showCursorWhenReady(m, "links")
     ELSE LET a == IF cursorPage.dropdowns
                   THEN [m EXCEPT !.v.dropdowns.visible = FALSE, !.c.cursorIsReady = FALSE]
                   ELSE m
          IN IF cursorPage.links
             THEN [a EXCEPT !.v.links.visible = FALSE, !.c.cursorIsReady = FALSE]
             ELSE a

\* the pending leave timer is cancelled (part_000:1088-1091)
CancelLeave(cs) ==
  IF cs.c.dropdownLeaveTimeout # 0
  THEN [cs EXCEPT !.t.leave = @ \ {cs.c.dropdownLeaveTimeout},
                  !.c.dropdownLeaveTimeout = 0]
  ELSE cs

\* what mouseenter does on a dropdown after the timer handling (1093-1126)
DropdownActivate(cs, d) ==
  IF ~cursorPage.dropdowns
  THEN [cs EXCEPT !.c.isHoveringDropdown = TRUE, !.err = TRUE]
  ELSE showCursorWhenReady(
         [cs EXCEPT !.c.isHoveringDropdown = TRUE, !.v.dropdowns.active = TRUE,
                    !.c.currentDropdown = d, !.c.dropdownRect = d],
         "dropdowns")

\* a mouseenter that leaves the pending leave timer alone
DropdownMouseenterKeepingTimer(cs, d) == DropdownActivate(cs, d)

\* mouseenter on a dropdown with a checkbox (part_000:1086-1127)
DropdownMouseenter(cs, d) == DropdownActivate(CancelLeave(cs), d)

\* the id of the next leave timer
NewLeaveId(cs) ==
  CHOOSE i \in 1..(MaxLeaveTimers + 1) :
    i \notin cs.t.leave /\ i # cs.c.dropdownLeaveTimeout

\* mouseleave on a dropdown with a checkbox (part_000:1130-1153)
DropdownMouseleave(cs, d) ==
  [cs EXCEPT !.t.leave = @ \cup {NewLeaveId(cs)},
             !.c.dropdownLeaveTimeout = NewLeaveId(cs),
             !.c.isHoveringDropdown = FALSE]

\* the callback of the 50 ms leave timer (part_000:1132-1149)
LeaveTimerCallback(cs) ==
  IF cs.c.isHoveringDropdown THEN [cs EXCEPT !.c.dropdownLeaveTimeout = 0]
  ELSE IF ~cursorPage.dropdowns THEN [cs EXCEPT !.err = TRUE]
  ELSE [cs EXCEPT !.v.dropdowns.active = FALSE, !.v.dropdowns.visible = FALSE,
                  !.c.currentDropdown = "null", !.c.dropdownRect = "null",
                  !.c.cursorIsReady = FALSE, !.c.dropdownLeaveTimeout = 0]

\* mouseenter on a work item (part_000:1210-1225)
WorkItemMouseenter(cs, w) ==
  showCursorWhenReady(
    [cs EXCEPT !.v.links.active = TRUE, !.c.currentWorkItem = w, !.c.workItemRect = w],
    "links")

\* mouseleave on a work item (part_000:1227-1245)
WorkItemMouseleave(cs, w) ==
  [cs EXCEPT !.v.links.active = FALSE, !.v.links.visible = FALSE,
             !.c.currentWorkItem = "null", !.c.workItemRect = "null",
             !.c.cursorIsReady = FALSE]

\* the handlers of script.js: no timers, no fading (script.js:767-813)
LegacyDropdownMouseenter(cs, d) ==
  IF ~cursorPage.dropdowns THEN [cs EXCEPT !.err = TRUE]
  ELSE [cs EXCEPT !.v.dropdowns.active = TRUE,
                  !.c.currentDropdown = d, !.c.dropdownRect = d]

LegacyDropdownMouseleave(cs, d) ==
  IF ~cursorPage.dropdowns THEN [cs EXCEPT !.err = TRUE]
  ELSE [cs EXCEPT !.v.dropdowns.active = FALSE,
                  !.c.currentDropdown = "null", !.c.dropdownRect = "null"]

LegacyWorkItemMouseenter(cs, w) ==
  [cs EXCEPT !.v.links.active = TRUE, !.c.currentWorkItem = w, !.c.workItemRect = w]

LegacyWorkItemMouseleave(cs, w) ==
  [cs EXCEPT !.v.links.active = FALSE,
             !.c.currentWorkItem = "null", !.c.workItemRect = "null"]

\* the listener of a hover target, if it has one: dropdowns without a
\* checkbox get none, work items get theirs only if the page has cursorLinks
OnMouseenter(cs, target) ==
  IF target \in DropdownsWithCheckbox
  THEN IF build = "responsive" THEN DropdownMouseenter(cs, target)
       ELSE LegacyDropdownMouseenter(cs, target)
  ELSE IF target \in WorkItems /\ cursorPage.links
  THEN IF build = "responsive" THEN WorkItemMouseenter(cs, target)
       ELSE LegacyWorkItemMouseenter(cs, target)
  ELSE cs

OnMouseleave(cs, target) ==
  IF target \in DropdownsWithCheckbox
  THEN IF build = "responsive" THEN DropdownMouseleave(cs, target)
       ELSE LegacyDropdownMouseleave(cs, target)
  ELSE IF target \in WorkItems /\ cursorPage.links
  THEN IF build = "responsive" THEN WorkItemMouseleave(cs, target)
       ELSE LegacyWorkItemMouseleave(cs, target)
  ELSE cs

OnMousemove(cs) == IF build = "responsive" THEN Mousemove(cs) ELSE cs

\* the handler's result becomes the state, unless it sets more timers than
\* the model follows
Becomes(cs) ==
  /\ \A el \in DOMAIN cs.t.show : cs.t.show[el] <= MaxShowTimers
  /\ Cardinality(cs.t.leave) <= MaxLeaveTimers
  /\ cursor' = cs.c
  /\ cursorView' = cs.v
  /\ cursorTimers' = cs.t
  /\ cursorErrors' = cs.err

pageVars == <<build, presets, dom, pc, width, currentBreakpoint,
              responsiveValueCache, resizeTimeout, orientTimers, calls, split,
              log>>

\* what a step of the cursor did; cleared says that the step cleared a
\* pending leave timer
CursorStep(op, cs) ==
  Outcome(op, currentBreakpoint, FALSE,
          cursor.dropdownLeaveTimeout \in cursorTimers.leave
            /\ cursor.dropdownLeaveTimeout \notin cs.t.leave,
          FALSE, NoQuery)

\* the DOMContentLoaded handler up to its early returns (part_000:888-896)
CursorSetup ==
  /\ cursorPc = "setup"
  /\ cursorPc' = IF isMobile \/ (~cursorPage.dropdowns /\ ~cursorPage.links)
                 THEN "off" ELSE "on"
  /\ last' = CursorStep("cursorSetup", CursorState)
  /\ UNCHANGED <<pageVars, timeVars, cursorPage, pointer, cursor, cursorView,
                 cursorTimers, cursorErrors>>

\* the pointer enters a hover target
MouseEnter(target) ==
  /\ cursorPc = "on"
  /\ pointer = "none"
  /\ pointer' = target
  /\ Becomes(OnMouseenter(CursorState, target))
  /\ last' = CursorStep("mouseenter", OnMouseenter(CursorState, target))
  /\ UNCHANGED <<pageVars, timeVars, cursorPage, cursorPc>>

\* the pointer leaves the hover target it is over
MouseLeave ==
  /\ cursorPc = "on"
  /\ pointer # "none"
  /\ pointer' = "none"
  /\ Becomes(OnMouseleave(CursorState, pointer))
  /\ last' = CursorStep("mouseleave", CursorState)
  /\ UNCHANGED <<pageVars, timeVars, cursorPage, cursorPc>>

\* the pointer moves without crossing the border of a hover target
MouseMove ==
  /\ cursorPc = "on"
  /\ Becomes(OnMousemove(CursorState))
  /\ last' = CursorStep("mousemove", CursorState)
  /\ UNCHANGED <<pageVars, timeVars, cursorPage, cursorPc, pointer>>

\* a 20 ms timer of showCursorWhenReady runs
ShowTimerFires(el) ==
  /\ cursorTimers.show[el] > 0
  /\ Becomes(ShowTimerCallback([CursorState EXCEPT !.t.show[el] = @ - 1], el))
  /\ last' = CursorStep("showTimer", CursorState)
  /\ UNCHANGED <<pageVars, timeVars, cursorPage, cursorPc, pointer>>

\* a 50 ms leave timer runs
LeaveTimerFires(id) ==
  /\ id \in cursorTimers.leave
  /\ Becomes(LeaveTimerCallback([CursorState EXCEPT !.t.leave = @ \ {id}]))
  /\ last' = CursorStep("leaveTimer", CursorState)
  /\ UNCHANGED <<pageVars, timeVars, cursorPage, cursorPc, pointer>>

CursorWidths == {991, 992}

\* a loaded page: the script has run on a document without animated elements
CursorInit ==
  /\ build \in Builds
  /\ presets = [src |-> "none", doc |-> JUndefined]
  /\ dom = <<>>
  /\ width \in CursorWidths
  /\ pc = IF build = "responsive" THEN "ready" ELSE "legacy"
  /\ currentBreakpoint = IF build = "responsive" THEN ClassifyWidth(width) ELSE "null"
  /\ responsiveValueCache = EmptyMap
  /\ resizeTimeout = FALSE
  /\ orientTimers = 0
  /\ calls = {}
  /\ split = {}
  /\ log = [errors |-> 1, warnings |-> 0]
  /\ last = Outcome("none", "null", FALSE, FALSE, FALSE, NoQuery)
  /\ ClockAtLoad
  /\ cursorPage \in [dropdowns : BOOLEAN, links : BOOLEAN, wrappers : BOOLEAN]
  /\ cursorPc = "setup"
  /\ pointer = "none"
  /\ cursor = CursorClosure
  /\ cursorView = CursorHidden
  /\ cursorTimers = NoCursorTimers
  /\ cursorErrors = FALSE

CursorNext ==
  \/ CursorSetup
  \/ \E target \in HoverTargets : MouseEnter(target)
  \/ MouseLeave
  \/ MouseMove
  \/ \E el \in {"dropdowns", "links"} : ShowTimerFires(el)
  \/ \E id \in 1..(MaxLeaveTimers + 1) : LeaveTimerFires(id)

CursorSpec == CursorInit /\ [][CursorNext]_vars

----------------------------------------------------------------------------
(* Vocabulary of the properties *)

\* no resize or orientation timer is pending: every settle delay has elapsed
Settled == ~resizeTimeout /\ orientTimers = 0

\* the breakpoint whose range contains the current window width
ViewportBreakpoint == ClassifyWidth(width)

Drivers == {"init", "view", "parallax", "words", "scrollwords"}
Tagged(driver, e) == ("data-gsap-" \o driver) \in DOMAIN dom[e].attrs
CallsOf(driver, e) == {c \in calls : c.driver = driver /\ c.el = e}
DriversDone == pc \in {"listeners", "ready"}

\* the request that starts the animation of an element
MainRequest(driver) ==
  CASE driver \in {"init", "view"} -> "gsap.fromTo"
    [] driver \in {"parallax", "words"} -> "gsap.to"
    [] driver = "scrollwords" -> "gsap.timeline"

Animates(driver, e) == Call(driver, e, MainRequest(driver)) \in calls

\* the answer of the Exclusion Evaluator in the current state
ExcludedNow(e) == shouldExcludeAnimation(dom[e].attrs, e, ResolverState).ret = Bool(TRUE)

\* the exclusion rule applied at the breakpoint of the viewport
ExcludedAtViewport(e) ==
  \/ ExcludeListHits(dom[e].attrs, ViewportBreakpoint)
  \/ LegacyExcludeHits(dom[e].attrs, ViewportBreakpoint)

\* the element has an attribute for the parameter at that breakpoint or a generic one
HasTier(e, paramName, breakpoint) ==
  \/ ("data-gsap-" \o paramName \o "-" \o breakpoint) \in DOMAIN dom[e].attrs
  \/ ("data-gsap-" \o paramName) \in DOMAIN dom[e].attrs

----------------------------------------------------------------------------
(* C1 .. C10 *)

\* C1: once the viewport has moved into another breakpoint's range and the
\* settle delay has elapsed, getResponsiveValue resolves against the breakpoint
\* of the viewport: the entry it reads is the one of that breakpoint, and when
\* the element has an attribute for the parameter the result is that attribute's
\* value at the viewport's breakpoint, never a value cached under the old one.
C1_ResolvesAgainstNewBreakpoint ==
  (pc = "ready" /\ Settled /\ last.op = "query") =>
     /\ last.q.bp = ViewportBreakpoint
     /\ HasTier(last.q.e, last.q.param, ViewportBreakpoint) =>
          last.q.ret = ResolveTiers(dom[last.q.e].attrs, last.q.param,
                                    ViewportBreakpoint, last.q.def)

\* C2: whenever every settle delay has elapsed, getCurrentBreakpoint() returns
\* the breakpoint whose range contains the current window width.
C2_BreakpointFollowsWidth ==
  (pc = "ready" /\ Settled) =>
     getCurrentBreakpoint(currentBreakpoint, width) = ViewportBreakpoint

\* C3: every call of getResponsiveValue returns the breakpoint-specific
\* attribute of the active breakpoint if the element has it, else the generic
\* attribute if it has it, else the default supplied by that call.
C3_ResolutionOrder ==
  last.op = "query" =>
     last.q.ret = ResolveTiers(dom[last.q.e].attrs, last.q.param, last.q.bp, last.q.def)

\* C4: an element whose data-gsap-exclude is "tablet" and that has no legacy
\* exclude attribute is reported excluded at tablet, mobile-l and mobile-p and
\* not excluded at desktop.
C4_ExclusionCascade ==
  \A e \in Elements :
    ( /\ build = "responsive"
      /\ pc \notin {"expand", "crashed"}
      /\ "data-gsap-exclude" \in DOMAIN dom[e].attrs
      /\ dom[e].attrs["data-gsap-exclude"] = <<"tablet">>
      /\ \A b \in BreakpointNames : ("data-gsap-exclude-" \o b) \notin DOMAIN dom[e].attrs )
    => ( ExcludedNow(e)
         <=> getCurrentBreakpoint(currentBreakpoint, width)
               \in {"tablet", "mobile-l", "mobile-p"} )

\* the cascade case of C4: the flag stored at mobile-l for exclude="tablet"
C4_Witness ==
  \E e \in Elements :
    /\ pc = "ready"
    /\ currentBreakpoint = "mobile-l"
    /\ "data-gsap-exclude" \in DOMAIN dom[e].attrs
    /\ dom[e].attrs["data-gsap-exclude"] = <<"tablet">>
    /\ Has(responsiveValueCache, e)
    /\ Has(responsiveValueCache[e], "exclude_mobile-l")
    /\ responsiveValueCache[e]["exclude_mobile-l"] = Bool(TRUE)

\* C5 as stated: once the drivers have run, for every driver and every element
\* of its category: an excluded element got no request at all from that driver
\* (no Animator call, no text splitting), and an element that is not excluded
\* got the driver's animation request.
C5_ExclusionDecidesAnimation ==
  DriversDone =>
    \A d \in Drivers, e \in Elements :
      Tagged(d, e) =>
        IF ExcludedNow(e) THEN CallsOf(d, e) = {} ELSE Animates(d, e)

\* the elements a driver leaves alone although they are not excluded
SkippedByDriver(d, e) ==
  \/ d = "view" /\ Tagged("init", e)
  \/ d \in {"words", "scrollwords"} /\ dom[e].words = 0

\* C5 amended: an excluded element gets no request at all from the driver; an
\* element that is not excluded gets the driver's animation request, except
\* that the view driver leaves an element that also carries data-gsap-init to
\* the init driver and the words and scrollwords drivers animate nothing when
\* the text holds no words.
C5_ExclusionDecidesAnimationAmended ==
  DriversDone =>
    \A d \in Drivers, e \in Elements :
      Tagged(d, e) =>
        /\ ExcludedNow(e) => CallsOf(d, e) = {}
        /\ (~ExcludedNow(e) /\ ~SkippedByDriver(d, e)) => Animates(d, e)
        /\ SkippedByDriver(d, e) => ~Animates(d, e)

\* an element excluded at mobile-p that every driver of its categories skipped,
\* on a page where another driver did animate an element
C5_Witness ==
  /\ pc = "ready"
  /\ currentBreakpoint = "mobile-p"
  /\ \E e \in Elements :
       /\ "data-gsap-exclude" \in DOMAIN dom[e].attrs
       /\ dom[e].attrs["data-gsap-exclude"] = <<"mobile", "-", "p">>
       /\ Tagged("words", e) /\ Tagged("init", e)
       /\ ExcludedNow(e)
       /\ \A d \in Drivers : CallsOf(d, e) = {}

C7_ExpanderIdempotent ==
  (pc # "expand" /\ presets.src \in {"global", "element"}) =>
     PresetExpander(build, presets.doc, DomAttrs).attrs = DomAttrs

RECURSIVE KeysWritten(_, _)
\* the attribute names the entries of a preset (or of a breakpoint object) write
KeysWritten(ent, suffix) ==
  IF ent = <<>> THEN {}
  ELSE LET k == Head(ent).key
           v == Head(ent).val
       IN (IF suffix = <<>> /\ breakpointsIncludes(Join(k))
           THEN (IF v.t = "obj" THEN KeysWritten(v.ent, <<"-">> \o k) ELSE {})
           ELSE {toDataAttr(k \o suffix)})
          \cup KeysWritten(Tail(ent), suffix)

\* the attribute names the presets of a category group can write
GroupWrites(group) ==
  UNION {KeysWritten(group.ent[j].val.ent, <<>>) : j \in 1..Len(group.ent)}

\* every attribute name some preset of the document can write; the split and
\* exclude markers are written under fixed names
AttributesWritten(doc) ==
  {"data-gsap-split", "data-gsap-exclude"}
  \cup UNION {GroupWrites(doc.ent[i].val) : i \in 1..Len(doc.ent)}

Selectors(doc) == {"data-gsap-" \o Join(doc.ent[i].key) : i \in 1..Len(doc.ent)}

\* no preset of the document writes the selector attribute of a category
NoSelectorWritten(doc) == AttributesWritten(doc) \cap Selectors(doc) = {}

\* C7 amended: for every preset document none of whose presets writes an
\* attribute that is the selector of one of its categories, and every DOM, a
\* second run of the Preset Expander leaves every element's attribute set as
\* the first run left it (elements matched by several categories included).
C7_ExpanderIdempotentAmended ==
  (pc # "expand" /\ presets.src \in {"global", "element"}
   /\ NoSelectorWritten(presets.doc)) =>
     PresetExpander(build, presets.doc, DomAttrs).attrs = DomAttrs

\* an element matched by two categories whose presets both carry a trigger
\* and an exclude, after the first run
C7_Witness ==
  /\ pc = "split"
  /\ build = "responsive"
  /\ presets.doc = DocInitWords
  /\ \E e \in Elements :
       /\ Tagged("init", e) /\ Tagged("words", e)
       /\ dom[e].attrs["data-gsap-trigger"] = <<".", "hero">>
       /\ dom[e].attrs["data-gsap-exclude"] = <<"tablet">>
       /\ dom[e].attrs["data-gsap-start-y-mobile-p"] = <<"5">>

\* C8: when the resize timer fires with the width in the range of another
\* breakpoint than the recorded one, the handler records the new breakpoint,
\* clears the whole cache and requests ScrollTrigger.refresh(); when the width
\* is still in the recorded breakpoint's range it does none of these.
C8_ResizeHandlerInvalidates ==
  last.op = "resizeTimer" =>
     IF ViewportBreakpoint # last.bpBefore
     THEN /\ currentBreakpoint = ViewportBreakpoint
          /\ responsiveValueCache = EmptyMap
          /\ last.cleared /\ last.refreshed
     ELSE /\ currentBreakpoint = last.bpBefore
          /\ ~last.cleared /\ ~last.refreshed

\* C9 as stated: when the orientation timer fires and the active breakpoint is
\* unchanged, the cache is left untouched and no refresh is requested.
C9_OrientationClearsOnlyOnChange ==
  (last.op = "orientationTimer" /\ currentBreakpoint = last.bpBefore) =>
     ~last.cleared /\ ~last.refreshed

\* C9 amended: whenever the orientation timer fires, the handler clears the
\* whole cache and requests an Animator refresh, whether or not the active
\* breakpoint changed.
C9_OrientationAlwaysClears ==
  last.op = "orientationTimer" =>
     responsiveValueCache = EmptyMap /\ last.cleared /\ last.refreshed

\* the orientation timer fired on a filled cache with the breakpoint unchanged
C9_Witness ==
  /\ last.op = "orientationTimer"
  /\ last.hadEntries
  /\ currentBreakpoint = last.bpBefore
  /\ responsiveValueCache = EmptyMap

\* C10: once a transition to another breakpoint has settled, every driver's
\* exclusion decision is the one of the new breakpoint: an element of the
\* driver's category (that the driver does not skip for another reason) is
\* animated exactly if the new breakpoint does not exclude it.
C10_DriversFollowBreakpoint ==
  (pc = "ready" /\ Settled) =>
     \A d \in Drivers, e \in Elements :
       (Tagged(d, e) /\ ~SkippedByDriver(d, e)) =>
          (Animates(d, e) <=> ~ExcludedAtViewport(e))

----------------------------------------------------------------------------
(* C11 .. C20 *)

\* the whitespace-trimmed names of a comma-separated list
ListedNames(list) == {Join(Trim(SplitComma(list)[i])) : i \in 1..Len(SplitComma(list))}

\* the exclusion rule as a relation between the attributes and a breakpoint:
\* a listed name that is a breakpoint at least as wide, or the legacy attribute
ExcludedBy(attrs, breakpoint) ==
  \/ /\ "data-gsap-exclude" \in DOMAIN attrs
     /\ \E n \in ListedNames(attrs["data-gsap-exclude"]) :
          /\ n \in {"desktop", "tablet", "mobile-l", "mobile-p"}
          /\ Range(n).order >= Range(breakpoint).order
  \/ ("data-gsap-exclude-" \o breakpoint) \in DOMAIN attrs

\* C11: shouldExcludeAnimation(element) at the active breakpoint B is true
\* exactly if a trimmed name of the element's exclude list is a recognized
\* breakpoint of order >= order(B) or the element has data-gsap-exclude-{B};
\* an unrecognized name contributes nothing and a list naming only mobile-p
\* excludes at mobile-p and at no wider breakpoint.
C11_ExclusionRule ==
  (build = "responsive" /\ pc \notin {"expand", "crashed"}) =>
    \A e \in Elements :
      LET x == shouldExcludeAnimation(dom[e].attrs, e, ResolverState)
      IN /\ x.ret \in {Bool(TRUE), Bool(FALSE)}
         /\ x.ret = Bool(TRUE) <=> ExcludedBy(dom[e].attrs, x.rs.bp)
         /\ ( /\ "data-gsap-exclude" \in DOMAIN dom[e].attrs
              /\ dom[e].attrs["data-gsap-exclude"] = <<"mobile", "-", "p">>
              /\ \A b \in BreakpointNames :
                   ("data-gsap-exclude-" \o b) \notin DOMAIN dom[e].attrs )
            => (x.ret = Bool(TRUE) <=> x.rs.bp = "mobile-p")

\* a list with a blank and an unrecognized name, excluded at mobile-l by the
\* cascade from tablet, next to an element excluded by its legacy attribute
C11_Witness ==
  /\ pc = "ready"
  /\ \E e \in Elements :
       /\ "data-gsap-exclude" \in DOMAIN dom[e].attrs
       /\ dom[e].attrs["data-gsap-exclude"] = <<" ", "tablet", ",", "phone">>
       /\ currentBreakpoint = "mobile-l"
       /\ ExcludedNow(e)
       /\ CallsOf("init", e) = {}

RECURSIVE FirstTrigger(_, _)
\* the trigger value of the first category, in document order, whose preset
\* for the element carries a trigger key; undefined when there is none
FirstTrigger(cats, attrs) ==
  IF cats = <<>> THEN JUndefined
  ELSE LET typeAttr == "data-gsap-" \o Join(Head(cats).key)
           preset == IF typeAttr \in DOMAIN attrs /\ Head(cats).val.t = "obj"
                     THEN Lookup(Head(cats).val, Join(attrs[typeAttr]))
                     ELSE JUndefined
       IN IF Truthy(preset) /\ Lookup(preset, "trigger").t # "undefined"
          THEN Lookup(preset, "trigger")
          ELSE FirstTrigger(Tail(cats), attrs)

\* C12: the Preset Expander leaves the data-gsap-trigger of every element that
\* carried one before the pass as it was; on an element that had none, the
\* trigger of the first matching preset that carries one is written and no
\* later preset overwrites it.
C12_TriggerProtection ==
  [][ (pc = "expand" /\ presets.src \in {"global", "element"}) =>
        \A e \in Elements :
          IF "data-gsap-trigger" \in DOMAIN dom[e].attrs
          THEN /\ "data-gsap-trigger" \in DOMAIN dom'[e].attrs
               /\ dom'[e].attrs["data-gsap-trigger"] = dom[e].attrs["data-gsap-trigger"]
          ELSE (pc' # "crashed" /\ presets.doc.t = "obj"
                /\ FirstTrigger(presets.doc.ent, dom[e].attrs).t # "undefined")
               => /\ "data-gsap-trigger" \in DOMAIN dom'[e].attrs
                  /\ dom'[e].attrs["data-gsap-trigger"]
                       = StringOf(FirstTrigger(presets.doc.ent, dom[e].attrs)) ]_vars

\* after the pass: an element that kept its own trigger although its preset
\* carries one, next to an element that got the trigger of its preset
C12_Witness ==
  /\ pc = "split"
  /\ presets.doc = DocInitWords
  /\ \E e \in Elements :
       /\ Tagged("init", e)
       /\ "data-gsap-trigger" \in DOMAIN dom[e].attrs
       /\ dom[e].attrs["data-gsap-trigger"] = <<".", "own">>
       /\ "data-gsap-start-y" \in DOMAIN dom[e].attrs
       /\ dom[e].attrs["data-gsap-start-y"] = <<"3", "0">>

\* the preset document is missing or its text is not parsable JSON
NoDocument == presets.src \in {"none", "malformed"}

\* the drivers have animated the elements from the attributes of the page
DriversRan ==
  \A d \in Drivers, e \in Elements :
    (Tagged(d, e) /\ ~ExcludedNow(e) /\ ~SkippedByDriver(d, e)) => Animates(d, e)

\* C13: with no preset document (neither source exists, or the text is not
\* JSON) the expansion stage logs one error, writes no attribute on any
\* element and hands over to the split stage; no later stage is cut off, each
\* stage hands over to the next, and on the loaded page the drivers have
\* animated the elements from the attributes already on the DOM.
C13_NoDocumentAbortsExpansionOnly ==
  /\ [][ (pc = "expand" /\ NoDocument) =>
           /\ dom' = dom
           /\ log' = [errors |-> 1, warnings |-> 0]
           /\ pc' = "split" ]_vars
  /\ [][ (NoDocument /\ build = "responsive" /\ pc' # pc) =>
           <<pc, pc'>> \in { <<"expand", "split">>, <<"split", "init">>,
                             <<"init", "view">>, <<"view", "parallax">>,
                             <<"parallax", "words">>, <<"words", "scrollwords">>,
                             <<"scrollwords", "listeners">>, <<"listeners", "ready">> } ]_vars
  /\ []((NoDocument /\ pc = "ready") => DriversRan)

\* a page without presets whose view element was animated all the same
C13_Witness ==
  /\ presets.src = "none"
  /\ pc = "ready"
  /\ log.errors = 1
  /\ \E e \in Elements :
       /\ DOMAIN dom[e].attrs = {"data-gsap-view"}
       /\ Animates("view", e)

\* a preset document was obtained, from the global object or from parsed JSON
Obtained == presets.src \in {"global", "element"}

\* the preset the element names in a category of the document, else undefined
PresetFor(cat, attrs) ==
  LET typeAttr == "data-gsap-" \o Join(cat.key)
  IN IF typeAttr \in DOMAIN attrs /\ cat.val.t = "obj"
     THEN Lookup(cat.val, Join(attrs[typeAttr]))
     ELSE JUndefined

\* the attribute names one key of a preset stands for.  A breakpoint-named key
\* with an object value stands for one name per nested key; direct tells
\* whether a breakpoint-named key with another value is written directly
EntryNames(key, value, direct) ==
  IF Join(key) \in {"split", "exclude"} THEN {}
  ELSE IF Join(key) \in BreakpointNames
  THEN IF value.t = "obj"
       THEN {toDataAttr(value.ent[j].key \o <<"-">> \o key) : j \in 1..Len(value.ent)}
       ELSE IF direct THEN {toDataAttr(key)} ELSE {}
  ELSE {toDataAttr(key)}

\* the attribute names the presets that the element names stand for
PresetNames(attrs, direct) ==
  UNION { UNION { EntryNames(PresetFor(presets.doc.ent[i], attrs).ent[k].key,
                             PresetFor(presets.doc.ent[i], attrs).ent[k].val, direct)
                  : k \in 1..Len(PresetFor(presets.doc.ent[i], attrs).ent) }
          : i \in 1..Len(presets.doc.ent) }

\* every element has, after the step, the attributes of every preset it named
\* before the step
FullyExpanded ==
  \A e \in Elements :
    presets.doc.t = "obj" => PresetNames(dom[e].attrs, FALSE) \subseteq DOMAIN dom'[e].attrs

\* C14: whatever the shape of an obtained preset document, no failure of the
\* expansion stage cuts off the later stages, and the expansion stage expands
\* every matched element: none is left out or half expanded because the
\* expansion of another one, or of one of its own keys, failed.
C14_ExpansionFailuresContained ==
  [][ (pc = "expand" /\ Obtained /\ build = "responsive") =>
        /\ pc' = "split"
        /\ FullyExpanded ]_vars

\* the categories of the document in which the element names an animation
\* that the category does not hold
Unmatched(attrs) ==
  {i \in 1..Len(presets.doc.ent) :
     LET cat == presets.doc.ent[i]
     IN /\ ("data-gsap-" \o Join(cat.key)) \in DOMAIN attrs
        /\ \A j \in 1..Len(cat.val.ent) :
             Join(cat.val.ent[j].key) # Join(attrs["data-gsap-" \o Join(cat.key)])}

\* the categories of the document in which the element names a preset
Matched(attrs) ==
  {i \in 1..Len(presets.doc.ent) :
     ("data-gsap-" \o Join(presets.doc.ent[i].key)) \in DOMAIN attrs} \ Unmatched(attrs)

\* C15: when elements name animations that have no preset in their category,
\* the expansion stage emits one warning for each, leaves the attribute set of
\* every element that names no preset at all unchanged, raises no error and
\* still expands the other elements and categories.
C15_UnknownAnimationSkipped ==
  [][ (pc = "expand" /\ Obtained /\ presets.doc.t = "obj"
       /\ \E e \in Elements : Unmatched(dom[e].attrs) # {}) =>
        /\ pc' = "split"
        /\ log'.errors = 0
        /\ log'.warnings = Cardinality({<<e, i>> \in Elements \X (1..Len(presets.doc.ent)) :
                                          i \in Unmatched(dom[e].attrs)})
        /\ \A e \in Elements :
             (Unmatched(dom[e].attrs) # {} /\ Matched(dom[e].attrs) = {})
               => dom'[e].attrs = dom[e].attrs
        /\ build = "responsive" => FullyExpanded ]_vars

\* C16: a call getResponsiveValue(element, param, d) on an element that has
\* neither the attribute of the active breakpoint nor the generic attribute
\* for param returns the default d of that call, whatever default an earlier
\* call for the same element and param was given.
\* So for the words driver, whose start-y default is 50: the value it was
\* returned is the one the cache holds when the drivers are through.
C16_DefaultOfTheCall ==
  /\ (last.op = "query" /\ ~HasTier(last.q.e, last.q.param, last.q.bp)) =>
        last.q.ret = last.q.def
  /\ pc = "listeners" =>
        \A e \in Elements :
          ( /\ Tagged("words", e) /\ ~ExcludedNow(e)
            /\ ~HasTier(e, "start-y", currentBreakpoint) )
          => responsiveValueCache[e][ValueCacheKey("start-y", currentBreakpoint)]
               = Num(50, 0)

\* a preset that the element names holds a breakpoint-named key with value null
NullBreakpointKey(attrs) ==
  \E i \in 1..Len(presets.doc.ent) :
    \E k \in 1..Len(PresetFor(presets.doc.ent[i], attrs).ent) :
      LET entry == PresetFor(presets.doc.ent[i], attrs).ent[k]
      IN Join(entry.key) \in BreakpointNames /\ entry.val.t = "null"

\* the expansion step writes, on every element, exactly the names its presets
\* stand for, next to the split and exclude markers
WritesNames(direct) ==
  \A e \in Elements :
    /\ PresetNames(dom[e].attrs, direct) \subseteq DOMAIN dom'[e].attrs
    /\ (DOMAIN dom'[e].attrs) \ (DOMAIN dom[e].attrs)
         \subseteq PresetNames(dom[e].attrs, direct)
                   \cup {"data-gsap-split", "data-gsap-exclude"}

\* C17 as stated: for every key of a matched preset other than split, exclude
\* and a protected trigger, a breakpoint-named key with an object value writes
\* one attribute data-gsap-{nestedKey}-{B} per nested key and every other key,
\* a breakpoint-named key with another value included, writes one attribute
\* data-gsap-{key}.  (Checked on the passes that no error ends.)
C17_OneAttributePerKey ==
  [][ (pc = "expand" /\ Obtained /\ build = "responsive" /\ presets.doc.t = "obj") =>
        (pc' = "split" => WritesNames(TRUE)) ]_vars

\* C17 amended: a breakpoint-named key with an object value writes one
\* attribute data-gsap-{nestedKey}-{B} per nested key; a breakpoint-named key
\* with any other value writes nothing, and with the value null it ends the
\* pass with an error; every other key writes one attribute data-gsap-{key}.
C17_OneAttributePerPlainKey ==
  [][ (pc = "expand" /\ Obtained /\ build = "responsive" /\ presets.doc.t = "obj") =>
        /\ (\E e \in Elements : NullBreakpointKey(dom[e].attrs)) => pc' = "crashed"
        /\ pc' = "split" => WritesNames(FALSE) ]_vars

\* after the pass: the nested key of mobile-p was written with the breakpoint
\* behind it, the key "desktop" with the value 3 was not written at all
C17_Witness ==
  /\ pc = "init"
  /\ build = "responsive"
  /\ presets.doc = DocInitWords
  /\ \E e \in Elements :
       /\ Tagged("words", e)
       /\ "data-gsap-start-y-mobile-p" \in DOMAIN dom[e].attrs
       /\ dom[e].attrs["data-gsap-start-y-mobile-p"] = <<"5">>
       /\ "data-gsap-start-y" \in DOMAIN dom[e].attrs
       /\ "data-gsap-desktop" \notin DOMAIN dom[e].attrs

\* the parameter names the drivers and the calls on the loaded page resolve
ParamNames ==
  {InitParams[i][1] : i \in 1..Len(InitParams)}
  \cup {ViewParams[i][1] : i \in 1..Len(ViewParams)}
  \cup {ParallaxParams[i][1] : i \in 1..Len(ParallaxParams)}
  \cup {WordsParams[i][1] : i \in 1..Len(WordsParams)}
  \cup {ScrollwordsParams[i][1] : i \in 1..Len(ScrollwordsParams)}
  \cup {ScrollPositionParams[i][1] : i \in 1..Len(ScrollPositionParams)}
  \cup QueryParams

\* the cache keys that name the breakpoint
KeysUnder(breakpoint) ==
  {p \o "_" \o breakpoint : p \in ParamNames} \cup {"exclude_" \o breakpoint}

\* every entry of the first cache is an entry of the second
Extends(cache2, cache1) ==
  \A e \in DOMAIN cache1 :
    /\ e \in DOMAIN cache2
    /\ \A k \in DOMAIN cache1[e] :
         k \in DOMAIN cache2[e] /\ cache2[e][k] = cache1[e][k]

\* C18: in every reachable state every entry of the Responsive Value Cache
\* is keyed under the recorded active breakpoint; a step in which the recorded
\* breakpoint changes leaves no entry of the breakpoint recorded before; and
\* the cache is never cleared in part: a step either keeps every entry or
\* removes all of them.
C18_CacheOfRecordedBreakpoint ==
  /\ [](\A e \in DOMAIN responsiveValueCache :
          DOMAIN responsiveValueCache[e] \subseteq KeysUnder(currentBreakpoint))
  /\ [][ currentBreakpoint' # currentBreakpoint =>
           \A e \in DOMAIN responsiveValueCache' :
             DOMAIN responsiveValueCache'[e] \cap KeysUnder(currentBreakpoint) = {} ]_vars
  /\ [][ \/ Extends(responsiveValueCache', responsiveValueCache)
         \/ responsiveValueCache' = EmptyMap ]_vars

\* a value stored again, under the recorded breakpoint, after a full clear
C18_Witness ==
  /\ last.op = "query"
  /\ ~last.hadEntries
  /\ ~last.q.hit
  /\ last.q.e \in DOMAIN responsiveValueCache
  /\ DOMAIN responsiveValueCache[last.q.e] = {"start-y_" \o currentBreakpoint}
  /\ ViewportBreakpoint # currentBreakpoint

\* the attribute getResponsiveValue reads for a parameter: the one of the
\* breakpoint if the element has it, else the generic one
EffectiveAttr(attrs, paramName, breakpoint) ==
  IF ("data-gsap-" \o paramName \o "-" \o breakpoint) \in DOMAIN attrs
  THEN "data-gsap-" \o paramName \o "-" \o breakpoint
  ELSE "data-gsap-" \o paramName

\* C19: getResponsiveValue resolves the attribute value "12.5" to the number
\* 12.5 and the attribute value "top bottom" to the string "top bottom",
\* whether the value is read from the attribute of the active breakpoint or
\* from the generic attribute.
C19_NumericParsing ==
  (build = "responsive" /\ pc \notin {"expand", "crashed"}) =>
    \A e \in Elements, p \in ParamNames :
      LET a == EffectiveAttr(dom[e].attrs, p, getCurrentBreakpoint(currentBreakpoint, width))
      IN a \in DOMAIN dom[e].attrs =>
           \A d \in QueryDefaults :
             LET r == getResponsiveValue(dom[e].attrs, e, p, d, ResolverState)
             IN /\ dom[e].attrs[a] = <<"1", "2", ".", "5">> => r.ret = Num(125, 1)
                /\ dom[e].attrs[a] = <<"top", " ", "bottom">>
                     => r.ret = Str(<<"top", " ", "bottom">>)

\* a call that returned 12.5 from the generic attribute, on an element whose
\* end position "top bottom" was cached from the attribute of tablet
C19_Witness ==
  /\ last.op = "query"
  /\ last.q.ret = Num(125, 1)
  /\ "data-gsap-start-y" \in DOMAIN dom[last.q.e].attrs
  /\ dom[last.q.e].attrs["data-gsap-start-y"] = <<"1", "2", ".", "5">>
  /\ currentBreakpoint = "tablet"
  /\ last.q.e \in DOMAIN responsiveValueCache
  /\ "end_tablet" \in DOMAIN responsiveValueCache[last.q.e]
  /\ responsiveValueCache[last.q.e]["end_tablet"] = Str(<<"top", " ", "bottom">>)

\* the parameters that hold scroll-position expressions and easing names
ExpressionParams == {"start", "end", "ease"}

\* C20: a scroll-position expression or an easing name held in an attribute
\* is returned by getResponsiveValue exactly as the attribute's string, and
\* getScrollPositions hands out exactly the strings of the start and end
\* attributes, also when the expression begins with a number ("80% bottom").
C20_ExpressionsPassThrough ==
  (build = "responsive" /\ pc \notin {"expand", "crashed"}) =>
    \A e \in Elements, p \in ExpressionParams :
      LET r == getResponsiveValue(dom[e].attrs, e, p, Str(<<"top", " ", "bottom">>),
                                  ResolverState)
          sp == getScrollPositions(dom[e].attrs, e, ResolverState)
          a == EffectiveAttr(dom[e].attrs, p, getCurrentBreakpoint(currentBreakpoint, width))
      IN a \in DOMAIN dom[e].attrs =>
           /\ r.ret = Str(dom[e].attrs[a])
           /\ p \in {"start", "end"} =>
                sp.cache[e][ValueCacheKey(p, sp.bp)] = Str(dom[e].attrs[a])

----------------------------------------------------------------------------
(* C21 .. C30 *)

\* the keys of the element's inner Map, none while it has no inner Map
KeysOf(cache, e) == IF e \in DOMAIN cache THEN DOMAIN cache[e] ELSE {}

\* the keys the element gains in the step
Gained(e) == KeysOf(responsiveValueCache', e) \ KeysOf(responsiveValueCache, e)

\* the parameters a driver resolves for an element it animates
ResolvedBy(driver, e) ==
  {DriverParams(driver)[i][1] : i \in 1..Len(DriverParams(driver))}
  \cup (IF UsesScrollPositions(driver, e)
        THEN {ScrollPositionParams[i][1] : i \in 1..Len(ScrollPositionParams)}
        ELSE {})

\* the keys a driver may store for an element: the exclusion flag if it
\* evaluates the exclusion, and its parameters if the flag is false
DriverKeys(driver, e, cache, breakpoint) ==
  IF ~Tagged(driver, e) \/ (driver = "view" /\ Tagged("init", e))
  THEN {}
  ELSE {ExcludeCacheKey(breakpoint)}
       \cup (IF cache[e][ExcludeCacheKey(breakpoint)] = Bool(TRUE)
             THEN {}
             ELSE {ValueCacheKey(p, breakpoint) : p \in ResolvedBy(driver, e)})

\* C21: the cache is populated lazily.  A step stores, for an element, only
\* keys of calls made in that step under the breakpoint then active: a driver
\* stores the exclusion flag of the elements it evaluates and the parameters
\* it resolves for those that are not excluded (none for an excluded one), a
\* getResponsiveValue call stores the key of its parameter on its element, and
\* the Preset Expander, the split stage, the listener set-up and the resize
\* and orientation handlers store nothing.
C21_LazyPopulation ==
  [][ \A e \in Elements :
        Gained(e) \subseteq
          (CASE last'.op \in Drivers ->
                  DriverKeys(last'.op, e, responsiveValueCache', currentBreakpoint')
             [] last'.op = "query" ->
                  IF e = last'.q.e
                  THEN {ValueCacheKey(last'.q.param, currentBreakpoint')}
                  ELSE {}
             [] OTHER -> {}) ]_vars

\* after the init driver: an excluded element holds its flag and nothing
\* else, an element that is not excluded holds its parameters
C21_Witness ==
  /\ pc = "view"
  /\ \E e \in Elements :
       /\ Tagged("init", e)
       /\ KeysOf(responsiveValueCache, e) = {ExcludeCacheKey(currentBreakpoint)}
       /\ responsiveValueCache[e][ExcludeCacheKey(currentBreakpoint)] = Bool(TRUE)
  /\ \E e \in Elements :
       /\ Tagged("init", e)
       /\ ValueCacheKey("start-y", currentBreakpoint) \in KeysOf(responsiveValueCache, e)

\* the legacy attributes of the element: the breakpoints they name
LegacyExcludes(attrs) ==
  {b \in BreakpointNames : ("data-gsap-exclude-" \o b) \in DOMAIN attrs}

\* C22: on an element without a data-gsap-exclude list, shouldExcludeAnimation
\* is true exactly if the element has the attribute data-gsap-exclude-{B} of
\* the active breakpoint B, whatever the attribute's value: an element with
\* data-gsap-exclude-tablet alone is excluded at tablet and at no other
\* breakpoint, wider or narrower.
C22_LegacyExcludeExact ==
  (build = "responsive" /\ pc \notin {"expand", "crashed"}) =>
    \A e \in Elements :
      ("data-gsap-exclude" \notin DOMAIN dom[e].attrs /\ LegacyExcludes(dom[e].attrs) # {})
      => LET x == shouldExcludeAnimation(dom[e].attrs, e, ResolverState)
         IN /\ x.ret = Bool(x.rs.bp \in LegacyExcludes(dom[e].attrs))
            /\ LegacyExcludes(dom[e].attrs) = {"tablet"}
                 => (x.ret = Bool(TRUE) <=> x.rs.bp = "tablet")

\* at mobile-l, below the tablet the attribute names, the words driver has
\* worked on the element
C22_Witness ==
  /\ pc = "ready"
  /\ currentBreakpoint = "mobile-l"
  /\ \E e \in Elements :
       /\ "data-gsap-exclude" \notin DOMAIN dom[e].attrs
       /\ LegacyExcludes(dom[e].attrs) = {"tablet"}
       /\ dom[e].attrs["data-gsap-exclude-tablet"] = <<>>
       /\ ~ExcludedNow(e)
       /\ Call("words", e, "SplitType") \in calls

\* the attributes without the named one
Without(attrs, name) == [n \in (DOMAIN attrs) \ {name} |-> attrs[n]]

\* C25: an attribute data-gsap-{param}-{B} has no influence on
\* getResponsiveValue while the active breakpoint is another one, narrower or
\* wider: the call returns what it returns on the element without that
\* attribute, and when nothing is cached and the element has no attribute of
\* the active breakpoint that is the generic attribute's value or the default.
C25_NoParameterCascade ==
  (build = "responsive" /\ pc \notin {"expand", "crashed"}) =>
    \A e \in Elements, p \in ParamNames, b \in BreakpointNames :
      LET active == getCurrentBreakpoint(currentBreakpoint, width)
          name == "data-gsap-" \o p \o "-" \o b
          generic == "data-gsap-" \o p
      IN (name \in DOMAIN dom[e].attrs /\ b # active) =>
           \A d \in QueryDefaults :
             LET r == getResponsiveValue(dom[e].attrs, e, p, d, ResolverState)
             IN /\ r.ret = getResponsiveValue(Without(dom[e].attrs, name), e, p, d,
                                              ResolverState).ret
                /\ (~r.hit /\ ("data-gsap-" \o p \o "-" \o active) \notin DOMAIN dom[e].attrs)
                     => r.ret = IF generic \in DOMAIN dom[e].attrs
                                THEN ParseAttr(dom[e].attrs[generic]) ELSE d

\* a call at a breakpoint narrower than tablet, on an element that has a
\* start-y of tablet: the generic attribute was resolved
C25_Witness ==
  /\ last.op = "query"
  /\ last.q.param = "start-y"
  /\ ~last.q.hit
  /\ last.q.bp \in {"mobile-l", "mobile-p"}
  /\ "data-gsap-start-y-tablet" \in DOMAIN dom[last.q.e].attrs
  /\ "data-gsap-start-y" \in DOMAIN dom[last.q.e].attrs
  /\ last.q.ret = ParseAttr(dom[last.q.e].attrs["data-gsap-start-y"])
  /\ last.q.ret # ParseAttr(dom[last.q.e].attrs["data-gsap-start-y-tablet"])

\* the default of a call that asks for a parameter named exclude
ExcludeDefault == Str(<<"none">>)

\* C26: exclusion flags and parameter values never share a cache key: for
\* every parameter name p, the name "exclude" included, and every breakpoint b
\* the key of p at b differs from the key of the exclusion flag at b; so
\* getResponsiveValue never returns a cached exclusion flag, and
\* shouldExcludeAnimation never returns a cached parameter value.
C26_KeysDisjoint ==
  (build = "responsive" /\ pc \notin {"expand", "crashed"}) =>
    /\ \A p \in ParamNames \cup {"exclude"}, b \in BreakpointNames :
         ValueCacheKey(p, b) # ExcludeCacheKey(b)
    /\ \A e \in Elements :
         LET r == getResponsiveValue(dom[e].attrs, e, "exclude", ExcludeDefault,
                                     ResolverState)
             x == shouldExcludeAnimation(dom[e].attrs, e, r.rs)
         IN /\ r.hit => r.ret.t # "bool"
            /\ x.ret.t = "bool"

\* the ranges of the breakpoints in pixels
ExpectedBreakpoint(w) ==
  IF w <= 479 THEN "mobile-p"
  ELSE IF w <= 767 THEN "mobile-l"
  ELSE IF w <= 991 THEN "tablet"
  ELSE "desktop"

\* the ranges of BREAKPOINTS that contain the width
RangesOf(w) == {i \in 1..Len(BREAKPOINTS) : InRange(w, BREAKPOINTS[i])}

\* C24: the ranges mobile-p [0,479], mobile-l [480,767], tablet [768,991] and
\* desktop [992,inf) partition the widths: every width lies in exactly one
\* range of BREAKPOINTS, so the fallback of getCurrentBreakpoint is never
\* taken, and the first getCurrentBreakpoint() call of a page load records
\* the breakpoint of that range.
C24_RangesPartition ==
  /\ [](/\ Cardinality(RangesOf(width)) = 1
        /\ \A i \in RangesOf(width) : BREAKPOINTS[i].name = ExpectedBreakpoint(width)
        /\ ClassifyWidth(width) = ExpectedBreakpoint(width))
  /\ [][ (currentBreakpoint = "null" /\ currentBreakpoint' # "null") =>
           /\ currentBreakpoint' = ExpectedBreakpoint(width)
           /\ InRange(width, Range(currentBreakpoint')) ]_vars

\* the first width of mobile-l, recorded by the view driver
C24_Witness ==
  /\ pc = "parallax"
  /\ dom = <<ElView>>
  /\ width = 480
  /\ currentBreakpoint = "mobile-l"

\* the stages that have taken on the icon of a heading: each has issued the
\* request that ends with the icon appended to the last word and faded in
IconStages(e) ==
  (IF Call("icons", e, "appendChild") \in calls THEN {"icons"} ELSE {})
  \cup (IF Call("words", e, "gsap.to") \in calls THEN {"words"} ELSE {})
  \cup (IF Call("scrollwords", e, "gsap.timeline") \in calls THEN {"scrollwords"} ELSE {})

\* C27: once the page is loaded, every heading with data-heading-icon whose
\* parent holds a .heading-icon (and whose text has a last word) has its icon
\* taken on by exactly one stage, the DOMContentLoaded handler, the words
\* driver or the scrollwords driver, at every breakpoint and whatever the
\* heading's exclusion says.
C27_IconShownByOneStage ==
  pc = "loaded" =>
    \A e \in Elements :
      ("data-heading-icon" \in DOMAIN dom[e].attrs /\ dom[e].icon /\ dom[e].words > 0)
      => Cardinality(IconStages(e)) = 1

\* C23: the resize listener debounces.  At most one resize timer is pending,
\* and right after a resize event it is the one that event set, due 250 ms
\* later (the pending one was cancelled).  The breakpoint re-check runs only
\* 250 ms after the last resize event, so not within a burst, and when more
\* than 250 ms have passed since the last event it has run exactly once.
C23_ResizeDebounce ==
  /\ [](Cardinality(timers) <= 1)
  /\ [](burst.last >= 0 =>
          /\ burst.runs <= 1
          /\ now > burst.last + ResizeDelay => burst.runs = 1
          /\ now < burst.last + ResizeDelay =>
               /\ burst.runs = 0
               /\ timers = {[id |-> timerId, due |-> burst.last + ResizeDelay]})
  /\ [][ (last'.op = "resize" /\ timerId' # timerId) =>
           timers' = {[id |-> timerId', due |-> now + ResizeDelay]} ]_vars
  /\ [][ burst'.runs # burst.runs =>
           \/ last'.op = "resize" /\ burst'.runs = 0
           \/ /\ last'.op = "resizeTimer"
              /\ now = burst.last + ResizeDelay
              /\ burst.runs = 0 /\ burst'.runs = 1
              /\ timers' = {} ]_vars

\* a burst of events 50 or 100 ms apart, and the one re-check 250 ms after
\* the last of them
C23_Witness ==
  /\ last.op = "resizeTimer"
  /\ burst.runs = 1
  /\ burst.first >= 0
  /\ burst.last >= burst.first + 150
  /\ now = burst.last + ResizeDelay

\* C28: in the responsive build a cursor element is visible only while its
\* hover target is set: after a work item's mouseleave (currentWorkItem is
\* null) cursorLinks is not visible, after the leave timer has reset
\* currentDropdown cursorDropdowns is not visible, and with neither target
\* set cursorIsReady is false, whatever timers were pending.
C28_NoLateFadeIn ==
  (build = "responsive" /\ cursorPc = "on" /\ ~cursorErrors) =>
    /\ cursor.currentWorkItem = "null" => ~cursorView.links.visible
    /\ cursor.currentDropdown = "null" => ~cursorView.dropdowns.visible
    /\ (cursor.currentWorkItem = "null" /\ cursor.currentDropdown = "null")
         => ~cursor.cursorIsReady

\* C29: on a page with .custom-cursor-links and without
\* .custom-cursor-dropdowns no handler raises an error, in either build.
C29_NoNullDereference ==
  (cursorPage.links /\ ~cursorPage.dropdowns) => ~cursorErrors

DropdownCursorActive ==
  /\ cursorView.dropdowns.active
  /\ cursor.currentDropdown = pointer
  /\ cursor.dropdownRect = pointer

\* C30: in the responsive build, with mouseenter and mouseleave of the
\* dropdowns alternating: at most one leave timer is pending and it is the
\* one in dropdownLeaveTimeout; while the pointer is over a dropdown with a
\* checkbox (and the page has the dropdown cursor) the cursor is active with
\* currentDropdown and dropdownRect set to that dropdown; a mouseenter on such
\* a dropdown leaves no leave timer pending; and the cursor is deactivated
\* only by a leave timer that runs while the pointer is over no such
\* dropdown, which then removes 'active' and clears currentDropdown and
\* dropdownRect together.
C30_DropdownCursorStaysActive ==
  /\ [](build = "responsive" =>
         /\ Cardinality(cursorTimers.leave) <= 1
         /\ cursorTimers.leave \subseteq {cursor.dropdownLeaveTimeout})
  /\ []((build = "responsive" /\ cursorPage.dropdowns
          /\ pointer \in DropdownsWithCheckbox) => DropdownCursorActive)
  /\ [][(build = "responsive" /\ pointer = "none"
          /\ pointer' \in DropdownsWithCheckbox)
        => (cursorTimers'.leave = {} /\ cursor'.dropdownLeaveTimeout = 0)]_vars
  /\ [][(build = "responsive"
          /\ \/ cursorView.dropdowns.active /\ ~cursorView'.dropdowns.active
             \/ cursor.currentDropdown # "null" /\ cursor'.currentDropdown = "null"
             \/ cursor.dropdownRect # "null" /\ cursor'.dropdownRect = "null")
        => /\ last'.op = "leaveTimer"
           /\ pointer \notin DropdownsWithCheckbox
           /\ ~cursorView'.dropdowns.active
           /\ cursor'.currentDropdown = "null"
           /\ cursor'.dropdownRect = "null"]_vars

\* the pointer went from one dropdown to the other: the mouseenter cleared
\* the pending leave timer and the visible cursor stayed
C30_Witness ==
  /\ build = "responsive"
  /\ cursorPage.dropdowns
  /\ last.op = "mouseenter"
  /\ last.cleared
  /\ pointer = "dropdownB"
  /\ DropdownCursorActive
  /\ cursorView.dropdowns.visible
  /\ cursorTimers.leave = {}

====
